---- MODULE Spec2Model ----
(***************************************************************************)
(* Model of the bytes and decimal wrap cases of the codec                  *)
(* (packages/codec/lib/wrap/bytes.ts and the decimal case file).           *)
(*                                                                         *)
(* A coercion is one call of wrapWithCases over a case list.  Each case    *)
(* is a generator: it returns a value, throws a TypeMismatchError, throws  *)
(* a BadResponseTypeError, or yields a request and waits for a response.   *)
(* The state is the stack of running wrapWithCases calls, the outstanding  *)
(* request, and the outcome of the top-level call.                         *)
(*                                                                         *)
(* Strings are sequences of one-character strings; byte arrays are         *)
(* sequences of numbers; a Big is [m, p], the number m / 10^p with no      *)
(* trailing fractional zero.                                               *)
(***************************************************************************)
EXTENDS Integers, Sequences, FiniteSets, TLC

VARIABLES
    dataType,     \* the target type of the coercion
    input,        \* its raw input
    wrapOptions,  \* its options
    stack,        \* the running wrapWithCases calls, the outermost first
    pending,      \* the request the coercion is suspended on, or NoRequest
    outcome,      \* what the coercion returned or threw, or NoError while it runs
    requests,     \* history: the requests issued
    answers,      \* history: the responses received
    begun,        \* history: the cases begun
    thrown        \* history: the TypeMismatchErrors thrown, by which case

vars == <<dataType, input, wrapOptions, stack, pending, outcome, requests, answers, begun, thrown>>

(***************************************************************************)
(* Bounds of the model.                                                    *)
(***************************************************************************)
\* static bytes targets have lengths 0..MaxLength; sources hold up to MaxLength + 1 bytes
MaxLength == 2
\* decimal targets have 0..MaxPlaces places; values have up to MaxPlaces + 1
MaxPlaces == 1

(***************************************************************************)
(* Sequences.                                                              *)
(***************************************************************************)
SeqsUpTo(S, n) == UNION {[1..k -> S] : k \in 0..n}

RECURSIVE Flatten(_)
Flatten(ss) == IF ss = <<>> THEN <<>> ELSE Head(ss) \o Flatten(Tail(ss))

Max(a, b) == IF a >= b THEN a ELSE b

RECURSIVE Pow(_, _)
Pow(b, e) == IF e = 0 THEN 1 ELSE b * Pow(b, e - 1)

(***************************************************************************)
(* Errors and results.                                                     *)
(***************************************************************************)
Reason(text, args) == [text |-> text, args |-> args]

\* new TypeMismatchError(dataType, input, name, specificity, reason)
TypeMismatchError(type, in, specificity, reason) ==
    [status |-> "mismatch", dataType |-> type, input |-> in,
     specificity |-> specificity, reason |-> reason]

\* new BadResponseTypeError(request, response)
BadResponseTypeError(request, response) ==
    [status |-> "protocol", request |-> request, response |-> response]

\* return { type: dataType, kind: "value", value: { asHex } }
BytesValue(type, asHex) ==
    [status |-> "value", type |-> type, kind |-> "value", asHex |-> asHex]

\* return { type: dataType, kind: "value", value: { asBig } }
DecimalValue(type, asBig) ==
    [status |-> "value", type |-> type, kind |-> "value", asBig |-> asBig]

\* the Messages module
overlongMessage(length, actual) == Reason("overlong", <<length, actual>>)
notABytestringMessage == Reason("notABytestring", <<>>)
invalidUtf16Message == Reason("invalidUtf16", <<>>)
errorResultMessage == Reason("errorResult", <<>>)
wrappedTypeMessage(type) == Reason("wrappedType", <<type>>)
specifiedTypeMessage(type) == Reason("specifiedType", <<type>>)
nonNumericMessage == Reason("nonNumeric", <<>>)
tooPreciseMessage(places, actual) == Reason("tooPrecise", <<places, actual>>)
outOfRangeMessage == Reason("outOfRange", <<>>)
unrecognizedNumberMessage(type) == Reason("unrecognizedNumber", <<type>>)

(***************************************************************************)
(* Characters and hex strings.                                             *)
(***************************************************************************)
HexDigits == <<"0", "1", "2", "3", "4", "5", "6", "7",
               "8", "9", "a", "b", "c", "d", "e", "f">>

DecimalDigits == <<"0", "1", "2", "3", "4", "5", "6", "7", "8", "9">>

IsDigit(c) == \E i \in 1..10 : DecimalDigits[i] = c

DigitValue(c) == (CHOOSE i \in 1..10 : DecimalDigits[i] = c) - 1

IsHexChar(c) == IsDigit(c) \/ c \in {"a", "b", "c", "d", "e", "f", "A", "B", "C", "D", "E", "F"}

\* one character of String.prototype.toLowerCase
LowerChar(c) ==
    CASE c = "A" -> "a" [] c = "B" -> "b" [] c = "C" -> "c" [] c = "D" -> "d"
      [] c = "E" -> "e" [] c = "F" -> "f" [] c = "X" -> "x" [] OTHER -> c

toLowerCase(s) == [i \in 1..Len(s) |-> LowerChar(s[i])]

\* String.prototype.padEnd(targetLength, padString): the pad string is repeated
\* and cut so that the result is exactly targetLength long
padEnd(s, targetLength, pad) ==
    IF Len(s) >= targetLength \/ Len(pad) = 0 THEN s
    ELSE s \o [i \in 1..(targetLength - Len(s)) |-> pad[((i - 1) % Len(pad)) + 1]]

\* Utils.isByteString: "0x" followed by an even number of hex digits
isByteString(s) ==
    /\ Len(s) >= 2
    /\ s[1] = "0"
    /\ s[2] = "x"
    /\ Len(s) % 2 = 0
    /\ \A i \in 3..Len(s) : IsHexChar(s[i])

\* Conversion.toHexString(bytes)
toHexString(bytes) ==
    <<"0", "x">> \o Flatten([i \in 1..Len(bytes) |->
        <<HexDigits[(bytes[i] \div 16) + 1], HexDigits[(bytes[i] % 16) + 1]>>])

IsSurrogate(unit) == unit >= 55296 /\ unit <= 57343

\* Conversion.stringToBytes(text): UTF-8 of a string of UTF-16 code units;
\* the model's texts hold no surrogate pair, so a surrogate is always unpaired
stringToBytesThrows(text) == \E i \in 1..Len(text) : IsSurrogate(text[i])

Utf8(unit) ==
    IF unit < 128 THEN <<unit>>
    ELSE IF unit < 2048 THEN <<192 + (unit \div 64), 128 + (unit % 64)>>
    ELSE <<224 + (unit \div 4096), 128 + ((unit \div 64) % 64), 128 + (unit % 64)>>

stringToBytes(text) == Flatten([i \in 1..Len(text) |-> Utf8(text[i])])

(***************************************************************************)
(* Bytes types.                                                            *)
(***************************************************************************)
DynamicBytes == [typeClass |-> "bytes", kind |-> "dynamic"]

StaticBytes(n) == [typeClass |-> "bytes", kind |-> "static", length |-> n]

BytesTargets == {DynamicBytes} \cup {StaticBytes(n) : n \in 0..MaxLength}

\* the number of bytes a hex string holds: (asHex.length - 2) / 2
ByteLength(asHex) == (Len(asHex) - 2) \div 2

(***************************************************************************)
(* Input shapes (the Utils tests): the raw input is a tagged record.       *)
(*   string / boxedString : str, a sequence of characters                  *)
(*   arrayLike            : honest (a real Uint8Array), lengthKind, elems  *)
(*   encodingText         : encoding, text (UTF-16 code units)             *)
(*   wrapped              : type, kind, and asHex / asBig / asBN / error   *)
(*   typeValue            : type (the annotation, a string), value         *)
(*   number, boxedNumber, bigint, BN, Big, other                           *)
(***************************************************************************)
isString(in) == in.tag = "string"
isBoxedString(in) == in.tag = "boxedString"
isUint8ArrayLike(in) == in.tag = "arrayLike"
isEncodingTextInput(in) == in.tag = "encodingText"
isWrappedResult(in) == in.tag = "wrapped"
isTypeValueInput(in) == in.tag = "typeValue"

\* input.valueOf() of a boxed string
valueOfBoxedString(in) == [tag |-> "string", str |-> in.str]

StartsWith(s, prefix) ==
    /\ Len(s) >= Len(prefix)
    /\ SubSeq(s, 1, Len(prefix)) = prefix

Rest(s, prefix) == SubSeq(s, Len(prefix) + 1, Len(s))

AllDigits(s) == \A i \in 1..Len(s) : IsDigit(s[i])

\* Number(digits) of a string of decimal digits
RECURSIVE DigitsToNumber(_)
DigitsToNumber(s) ==
    IF s = <<>> THEN 0
    ELSE 10 * DigitsToNumber(SubSeq(s, 1, Len(s) - 1)) + DigitValue(s[Len(s)])

ByteWord == <<"b", "y", "t", "e">>
BytesWord == <<"b", "y", "t", "e", "s">>

\* the value of length when the annotation gives none: null
NoLength == -1

(***************************************************************************)
(* bytes.ts                                                                *)
(***************************************************************************)
validateAndPadDropsCheck(type, asHex, in) ==
    LET lower == toLowerCase(asHex) IN
    IF type.kind = "static"
    THEN [ok |-> TRUE, asHex |-> padEnd(lower, type.length * 2 + 2, <<"0", "0">>)]
    ELSE [ok |-> TRUE, asHex |-> lower]

validateAndPadPadsLeft(type, asHex, in) ==
    LET lower == toLowerCase(asHex) IN
    IF type.kind = "static"
    THEN IF Len(lower) - 2 > 2 * type.length
         THEN [ok |-> FALSE,
               error |-> TypeMismatchError(type, in, 5,
                            overlongMessage(type.length, ByteLength(lower)))]
         ELSE [ok |-> TRUE,
               asHex |-> <<"0", "x">>
                         \o [i \in 1..(type.length * 2 + 2 - Len(lower)) |-> "0"]
                         \o SubSeq(lower, 3, Len(lower))]
    ELSE [ok |-> TRUE, asHex |-> lower]

\* validateAndPad: the padded hex string, or the overlong error
validateAndPad(type, asHex, in) ==
    LET lower == toLowerCase(asHex) IN
    IF type.kind = "static"
    THEN IF Len(lower) - 2 > 2 * type.length
         THEN [ok |-> FALSE,
               error |-> TypeMismatchError(type, in, 5,
                            overlongMessage(type.length, ByteLength(lower)))]
         ELSE [ok |-> TRUE,
               asHex |-> padEnd(lower, type.length * 2 + 2, <<"0", "0">>)]
    ELSE [ok |-> TRUE, asHex |-> lower]

\* the common tail of the accepting cases: validateAndPad, then the value
PadAndWrap(type, asHex, in) ==
    LET padded == validateAndPad(type, asHex, in) IN
    IF padded.ok THEN BytesValue(type, padded.asHex) ELSE padded.error

bytesFromHexString(type, in, options) ==
    IF ~isString(in)
    THEN TypeMismatchError(type, in, 1, Reason("Input was not a string", <<>>))
    ELSE IF ~isByteString(in.str)
    THEN TypeMismatchError(type, in, 5, notABytestringMessage)
    ELSE PadAndWrap(type, in.str, in)

bytesFromBoxedString(type, in, options) ==
    IF ~isBoxedString(in)
    THEN TypeMismatchError(type, in, 1, Reason("Input was not a boxed string", <<>>))
    ELSE bytesFromHexString(type, valueOfBoxedString(in), options)

IsByte(x) == x >= 0 /\ x < 256

\* validateUint8ArrayLike: the error it throws, or NoError.  An element is a
\* number (an integer in the model), so the test left is 0 <= element < 256.
NoError == [status |-> "none"]

validateUint8ArrayLike(in, type) ==
    IF in.honest THEN NoError
    ELSE IF in.lengthKind = "unsafe"
    THEN TypeMismatchError(type, in, 5,
             Reason("Input is byte-array-like, but its length is not a safe integer", <<>>))
    ELSE IF in.lengthKind = "negative"
    THEN TypeMismatchError(type, in, 5,
             Reason("Input is byte-array-like, but its length is negative", <<>>))
    ELSE IF \E i \in 1..Len(in.elems) : ~IsByte(in.elems[i])
    THEN LET bad == CHOOSE i \in 1..Len(in.elems) :
                        /\ ~IsByte(in.elems[i])
                        /\ \A j \in 1..(i - 1) : IsByte(in.elems[j])
         IN TypeMismatchError(type, in, 5,
                Reason("Input is byte-array-like, but byte is not a 1-byte value", <<bad - 1>>))
    ELSE NoError

bytesFromUint8ArrayLike(type, in, options) ==
    IF ~isUint8ArrayLike(in)
    THEN TypeMismatchError(type, in, 1, Reason("Input was not a Uint8Array-like", <<>>))
    ELSE LET checked == validateUint8ArrayLike(in, type) IN
         IF checked.status = "mismatch" THEN checked
         ELSE PadAndWrap(type, toHexString(in.elems), in)

bytesFromEncodingTextInput(type, in, options) ==
    IF ~isEncodingTextInput(in)
    THEN TypeMismatchError(type, in, 1, Reason("Input was not a in encoding/text form", <<>>))
    ELSE IF in.encoding # "utf8"
    THEN TypeMismatchError(type, in, 5,
             Reason("Unknown or unsupported text encoding", <<in.encoding>>))
    ELSE IF stringToBytesThrows(in.text)
    THEN TypeMismatchError(type, in, 5, invalidUtf16Message)
    ELSE PadAndWrap(type, toHexString(stringToBytes(in.text)), in)

\* the type test of bytesFromBytesValue under loose = false
SameBytesType(inType, type) ==
    \/ (inType.kind = "dynamic" /\ type.kind = "dynamic")
    \/ (inType.kind = "static" /\ type.kind = "static" /\ inType.length = type.length)

bytesFromBytesValueLooseOnly(type, in, options) ==
    IF ~isWrappedResult(in)
    THEN TypeMismatchError(type, in, 1, Reason("Input was not a wrapped result", <<>>))
    ELSE IF in.type.typeClass # "bytes"
    THEN TypeMismatchError(type, in, 5, wrappedTypeMessage(in.type))
    ELSE IF in.kind # "value"
    THEN TypeMismatchError(type, in, 5, errorResultMessage)
    ELSE IF ~options.loose
    THEN TypeMismatchError(type, in, 5, wrappedTypeMessage(in.type))
    ELSE PadAndWrap(type, in.asHex, in)

bytesFromBytesValueKeepsType(type, in, options) ==
    IF ~isWrappedResult(in)
    THEN TypeMismatchError(type, in, 1, Reason("Input was not a wrapped result", <<>>))
    ELSE IF in.type.typeClass # "bytes"
    THEN TypeMismatchError(type, in, 5, wrappedTypeMessage(in.type))
    ELSE IF in.kind # "value"
    THEN TypeMismatchError(type, in, 5, errorResultMessage)
    ELSE IF ~options.loose /\ ~SameBytesType(in.type, type)
    THEN TypeMismatchError(type, in, 5, wrappedTypeMessage(in.type))
    ELSE LET result == PadAndWrap(type, in.asHex, in) IN
         IF result.status = "value" THEN BytesValue(in.type, result.asHex) ELSE result

bytesFromBytesValueKindOnly(type, in, options) ==
    IF ~isWrappedResult(in)
    THEN TypeMismatchError(type, in, 1, Reason("Input was not a wrapped result", <<>>))
    ELSE IF in.type.typeClass # "bytes"
    THEN TypeMismatchError(type, in, 5, wrappedTypeMessage(in.type))
    ELSE IF in.kind # "value"
    THEN TypeMismatchError(type, in, 5, errorResultMessage)
    ELSE IF ~options.loose /\ in.type.kind # type.kind
    THEN TypeMismatchError(type, in, 5, wrappedTypeMessage(in.type))
    ELSE PadAndWrap(type, in.asHex, in)

bytesFromBytesValueIgnoresLoose(type, in, options) ==
    IF ~isWrappedResult(in)
    THEN TypeMismatchError(type, in, 1, Reason("Input was not a wrapped result", <<>>))
    ELSE IF in.type.typeClass # "bytes"
    THEN TypeMismatchError(type, in, 5, wrappedTypeMessage(in.type))
    ELSE IF in.kind # "value"
    THEN TypeMismatchError(type, in, 5, errorResultMessage)
    ELSE IF ~SameBytesType(in.type, type)
    THEN TypeMismatchError(type, in, 5, wrappedTypeMessage(in.type))
    ELSE PadAndWrap(type, in.asHex, in)

bytesFromBytesValue(type, in, options) ==
    IF ~isWrappedResult(in)
    THEN TypeMismatchError(type, in, 1, Reason("Input was not a wrapped result", <<>>))
    ELSE IF in.type.typeClass # "bytes"
    THEN TypeMismatchError(type, in, 5, wrappedTypeMessage(in.type))
    ELSE IF in.kind # "value"
    THEN TypeMismatchError(type, in, 5, errorResultMessage)
    ELSE IF ~options.loose /\ ~SameBytesType(in.type, type)
    THEN TypeMismatchError(type, in, 5, wrappedTypeMessage(in.type))
    ELSE PadAndWrap(type, in.asHex, in)

bytesFailureCaseLowest(type, in, options) ==
    TypeMismatchError(type, in, 1,
        Reason("Input was not a hex string, byte-array-alike, encoding/text pair, type/value pair, or wrapped bytestring", <<>>))

bytesFailureCase(type, in, options) ==
    TypeMismatchError(type, in, 2,
        Reason("Input was not a hex string, byte-array-alike, encoding/text pair, type/value pair, or wrapped bytestring", <<>>))

\* input.type.match(/^byte(s\d*)?$/)
MatchesBytesAnnotation(s) ==
    \/ s = ByteWord
    \/ (StartsWith(s, BytesWord) /\ AllDigits(Rest(s, BytesWord)))

\* the length the annotation specifies: bytesN -> N, byte -> 1, else null
SpecifiedLength(s) ==
    IF StartsWith(s, BytesWord) /\ Rest(s, BytesWord) # <<>> /\ AllDigits(Rest(s, BytesWord))
    THEN DigitsToNumber(Rest(s, BytesWord))
    ELSE IF s = ByteWord THEN 1
    ELSE NoLength

bytesFromTypeValueInputChecksByteIsDynamic(type, in, options) ==
    IF ~isTypeValueInput(in)
    THEN TypeMismatchError(type, in, 1, Reason("Input was not a type/value pair", <<>>))
    ELSE IF ~MatchesBytesAnnotation(in.type)
    THEN TypeMismatchError(type, in, 5, specifiedTypeMessage(in.type))
    ELSE LET length == IF in.type = ByteWord THEN NoLength ELSE SpecifiedLength(in.type) IN
         IF /\ ~(length = NoLength /\ type.kind = "dynamic")
            /\ ~(type.kind = "static" /\ length = type.length)
         THEN TypeMismatchError(type, in, 5, specifiedTypeMessage(in.type))
         ELSE NoError

\* the checks of bytesFromTypeValueInput before it re-enters wrapWithCases:
\* the error thrown, or NoError when the call is made
bytesFromTypeValueInputChecks(type, in, options) ==
    IF ~isTypeValueInput(in)
    THEN TypeMismatchError(type, in, 1, Reason("Input was not a type/value pair", <<>>))
    ELSE IF ~MatchesBytesAnnotation(in.type)
    THEN TypeMismatchError(type, in, 5, specifiedTypeMessage(in.type))
    ELSE LET length == SpecifiedLength(in.type) IN
         IF /\ ~(length = NoLength /\ type.kind = "dynamic")
            /\ ~(type.kind = "static" /\ length = type.length)
         THEN TypeMismatchError(type, in, 5, specifiedTypeMessage(in.type))
         ELSE NoError

bytesCasesBasicEncodingTextFirst ==
    <<"bytesFromHexString", "bytesFromBoxedString", "bytesFromUint8ArrayLike",
      "bytesFromEncodingTextInput", "bytesFromBytesValue", "bytesFailureCase">>

bytesCasesBasic ==
    <<"bytesFromHexString", "bytesFromBoxedString", "bytesFromUint8ArrayLike",
      "bytesFromBytesValue", "bytesFromEncodingTextInput", "bytesFailureCase">>

bytesCases == <<"bytesFromTypeValueInput">> \o bytesCasesBasic


(***************************************************************************)
(* Big: exact decimals.  [m |-> mantissa, p |-> places] is m / 10^p, kept  *)
(* with no trailing fractional zero, as big.js keeps its digits.           *)
(***************************************************************************)
Abs(n) == IF n < 0 THEN -n ELSE n

RECURSIVE Normalize(_, _)
Normalize(m, p) ==
    IF p > 0 /\ m % 10 = 0 THEN Normalize(m \div 10, p - 1) ELSE [m |-> m, p |-> p]

\* Conversion.toBig(bn), Conversion.toBig(bigint)
toBig(n) == [m |-> n, p |-> 0]

\* big.plus(0): a copy with the same value
plusZero(big) == Normalize(big.m, big.p)

\* Conversion.shiftBigDown(n, places): n / 10^places
shiftBigDown(n, places) == Normalize(n, places)

\* Conversion.countDecimalPlaces(big)
countDecimalPlaces(big) == big.p

Scaled(big, p) == big.m * Pow(10, p - big.p)

\* a.gt(b), a.lt(b)
gt(a, b) == Scaled(a, Max(a.p, b.p)) > Scaled(b, Max(a.p, b.p))
lt(a, b) == Scaled(a, Max(a.p, b.p)) < Scaled(b, Max(a.p, b.p))

\* input.trim()
RECURSIVE trimStart(_)
trimStart(s) == IF s # <<>> /\ Head(s) = " " THEN trimStart(Tail(s)) ELSE s

RECURSIVE trimEnd(_)
trimEnd(s) ==
    IF s # <<>> /\ s[Len(s)] = " " THEN trimEnd(SubSeq(s, 1, Len(s) - 1)) ELSE s

trim(s) == trimEnd(trimStart(s))

\* new Big(string): big.js accepts -?(digits(.digits*)?|.digits) with an optional
\* exponent; the model's strings hold no exponent
Unsigned(s) == IF s # <<>> /\ Head(s) = "-" THEN Tail(s) ELSE s

DotAt(s) == IF \E i \in 1..Len(s) : s[i] = "."
            THEN CHOOSE i \in 1..Len(s) : s[i] = "." /\ \A j \in 1..(i - 1) : s[j] # "."
            ELSE 0

IntPart(s) == IF DotAt(s) = 0 THEN s ELSE SubSeq(s, 1, DotAt(s) - 1)

FracPart(s) == IF DotAt(s) = 0 THEN <<>> ELSE SubSeq(s, DotAt(s) + 1, Len(s))

BigThrows(s) ==
    LET u == Unsigned(s) IN
    \/ ~AllDigits(IntPart(u))
    \/ ~AllDigits(FracPart(u))
    \/ (IntPart(u) = <<>> /\ FracPart(u) = <<>>)

BigFromString(s) ==
    LET u == Unsigned(s)
        n == DigitsToNumber(IntPart(u) \o FracPart(u))
    IN Normalize(IF u # s THEN -n ELSE n, Len(FracPart(u)))

\* new Big(number): the number's decimal value, big * 10^exp10
BigFromNumber(in) == Normalize(in.big.m * Pow(10, in.exp10), in.big.p)

(***************************************************************************)
(* Decimal types and the Utils functions on them.                          *)
(***************************************************************************)
DecimalBits == {8, 16}

DecimalType(typeClass, bits, places) ==
    [typeClass |-> typeClass, bits |-> bits, places |-> places]

DecimalTargets ==
    {DecimalType(c, b, p) : c \in {"fixed", "ufixed"}, b \in DecimalBits, p \in 0..MaxPlaces}

\* Utils.maxValue: the largest value of the type, (2^bits - 1) / 10^places,
\* with one bit less when signed
maxValue(type) ==
    shiftBigDown(Pow(2, IF type.typeClass = "fixed" THEN type.bits - 1 ELSE type.bits) - 1,
                 type.places)

\* Utils.minValue: -2^(bits-1) / 10^places when signed, 0 when unsigned
minValue(type) ==
    IF type.typeClass = "fixed"
    THEN shiftBigDown(-Pow(2, type.bits - 1), type.places)
    ELSE toBig(0)

\* Utils.isSafeNumber: |input * 10^places| <= Number.MAX_SAFE_INTEGER
\* (9007199254740991).  With k = exp10 + places - p the test is
\* |m| <= floor(MAX_SAFE_INTEGER / 10^k), which every |m| < 2^31 passes for k <= 6.
isSafeNumber(type, in) ==
    LET k == in.exp10 + type.places - in.big.p IN
    \/ k <= 6
    \/ (k <= 15 /\ Abs(in.big.m) <= 900719925 \div Pow(10, k - 7))
    \/ in.big.m = 0

isBoxedNumber(in) == in.tag = "boxedNumber"
isNumber(in) == in.tag = "number"
isBigint(in) == in.tag = "bigint"
isBN(in) == in.tag = "BN"
isBig(in) == in.tag = "Big"

\* input.valueOf() of a boxed number
valueOfBoxedNumber(in) ==
    [tag |-> "number", cls |-> in.cls, big |-> in.big, exp10 |-> in.exp10]

(***************************************************************************)
(* The decimal cases.                                                      *)
(***************************************************************************)
validateSkipsPlaces(type, asBig, in) ==
    IF gt(asBig, maxValue(type)) \/ lt(asBig, minValue(type))
    THEN TypeMismatchError(type, in, 5, outOfRangeMessage)
    ELSE NoError

validateSkipsRange(type, asBig, in) ==
    IF countDecimalPlaces(asBig) > type.places
    THEN TypeMismatchError(type, in, 5,
             tooPreciseMessage(type.places, countDecimalPlaces(asBig)))
    ELSE NoError

\* validate: the error it throws, or NoError
validate(type, asBig, in) ==
    IF countDecimalPlaces(asBig) > type.places
    THEN TypeMismatchError(type, in, 5,
             tooPreciseMessage(type.places, countDecimalPlaces(asBig)))
    ELSE IF gt(asBig, maxValue(type)) \/ lt(asBig, minValue(type))
    THEN TypeMismatchError(type, in, 5, outOfRangeMessage)
    ELSE NoError

\* the common tail of the accepting cases: validate, then the value
ValidateAndWrap(type, asBig, in) ==
    LET checked == validate(type, asBig, in) IN
    IF checked.status = "mismatch" THEN checked ELSE DecimalValue(type, asBig)

decimalFromBig(type, in, options) ==
    IF ~isBig(in)
    THEN TypeMismatchError(type, in, 1, Reason("Input was not a Big", <<>>))
    ELSE ValidateAndWrap(type, plusZero(in.big), in)

decimalFromBN(type, in, options) ==
    IF ~isBN(in)
    THEN TypeMismatchError(type, in, 1, Reason("Input was not a BN", <<>>))
    ELSE ValidateAndWrap(type, toBig(in.bn), in)

decimalFromBigint(type, in, options) ==
    IF ~isBigint(in)
    THEN TypeMismatchError(type, in, 1, Reason("Input was not a bigint", <<>>))
    ELSE ValidateAndWrap(type, toBig(in.bn), in)

decimalFromString(type, in, options) ==
    IF ~isString(in)
    THEN TypeMismatchError(type, in, 1, Reason("Input was not a string", <<>>))
    ELSE LET trimmed == trim(in.str) IN
         IF BigThrows(trimmed)
         THEN TypeMismatchError(type, in, 5, nonNumericMessage)
         ELSE ValidateAndWrap(type, BigFromString(trimmed), in)

decimalFromNumber(type, in, options) ==
    IF ~isNumber(in)
    THEN TypeMismatchError(type, in, 1, Reason("Input was not a number", <<>>))
    ELSE IF in.cls # "finite"
    THEN TypeMismatchError(type, in, 5, Reason("Numeric value is not finite", <<>>))
    ELSE IF ~isSafeNumber(type, in)
    THEN TypeMismatchError(type, in, 5,
             Reason("Given number is outside the safe range for this data type", <<>>))
    ELSE ValidateAndWrap(type, BigFromNumber(in), in)

decimalFromBoxedString(type, in, options) ==
    IF ~isBoxedString(in)
    THEN TypeMismatchError(type, in, 1, Reason("Input was not a boxed string", <<>>))
    ELSE decimalFromString(type, valueOfBoxedString(in), options)

decimalFromBoxedNumber(type, in, options) ==
    IF ~isBoxedNumber(in)
    THEN TypeMismatchError(type, in, 1, Reason("Input was not a boxed number", <<>>))
    ELSE decimalFromNumber(type, valueOfBoxedNumber(in), options)

decimalFromDecimalValue(type, in, options) ==
    IF ~isWrappedResult(in)
    THEN TypeMismatchError(type, in, 1, Reason("Input was not a wrapped result", <<>>))
    ELSE IF in.type.typeClass # "fixed" /\ in.type.typeClass # "ufixed"
    THEN TypeMismatchError(type, in, 5, wrappedTypeMessage(in.type))
    ELSE IF in.kind # "value"
    THEN TypeMismatchError(type, in, 5, errorResultMessage)
    ELSE IF /\ ~options.loose
            /\ \/ in.type.typeClass # type.typeClass
               \/ in.type.bits # type.bits
               \/ in.type.places # type.places
    THEN TypeMismatchError(type, in, 5, wrappedTypeMessage(in.type))
    ELSE ValidateAndWrap(type, plusZero(in.asBig), in)

decimalFromIntegerValueAnyLoose(type, in, options) ==
    IF ~isWrappedResult(in)
    THEN TypeMismatchError(type, in, 1, Reason("Input was not a wrapped result", <<>>))
    ELSE IF in.type.typeClass # "int" /\ in.type.typeClass # "uint"
    THEN TypeMismatchError(type, in, 5, wrappedTypeMessage(in.type))
    ELSE IF in.kind # "value"
    THEN TypeMismatchError(type, in, 5, errorResultMessage)
    ELSE ValidateAndWrap(type, toBig(in.asBN), in)

decimalFromIntegerValue(type, in, options) ==
    IF ~isWrappedResult(in)
    THEN TypeMismatchError(type, in, 1, Reason("Input was not a wrapped result", <<>>))
    ELSE IF in.type.typeClass # "int" /\ in.type.typeClass # "uint"
    THEN TypeMismatchError(type, in, 5, wrappedTypeMessage(in.type))
    ELSE IF in.kind # "value"
    THEN TypeMismatchError(type, in, 5, errorResultMessage)
    ELSE IF ~options.loose
    THEN TypeMismatchError(type, in, 5, wrappedTypeMessage(in.type))
    ELSE ValidateAndWrap(type, toBig(in.asBN), in)

decimalFromEnumValue(type, in, options) ==
    IF ~isWrappedResult(in)
    THEN TypeMismatchError(type, in, 1, Reason("Input was not a wrapped result", <<>>))
    ELSE IF in.type.typeClass # "enum"
    THEN TypeMismatchError(type, in, 5, wrappedTypeMessage(in.type))
    ELSE IF in.kind # "value"
    THEN TypeMismatchError(type, in, 1, errorResultMessage)
    ELSE IF ~options.loose
    THEN TypeMismatchError(type, in, 5, wrappedTypeMessage(in.type))
    ELSE ValidateAndWrap(type, toBig(in.numericAsBN), in)

decimalFromEnumError(type, in, options) ==
    IF ~isWrappedResult(in)
    THEN TypeMismatchError(type, in, 1, Reason("Input was not a wrapped result", <<>>))
    ELSE IF in.type.typeClass # "enum"
    THEN TypeMismatchError(type, in, 5, wrappedTypeMessage(in.type))
    ELSE IF in.kind # "error"
    THEN TypeMismatchError(type, in, 1,
             Reason("Wrapped result was a value rather than an error", <<>>))
    ELSE IF ~options.loose
    THEN TypeMismatchError(type, in, 5, wrappedTypeMessage(in.type))
    ELSE IF in.error.kind # "EnumOutOfRangeError"
    THEN TypeMismatchError(type, in, 5, errorResultMessage)
    ELSE ValidateAndWrap(type, toBig(in.error.rawAsBN), in)

FixedWord == <<"f", "i", "x", "e", "d">>
UfixedWord == <<"u", "f", "i", "x", "e", "d">>

\* the groups of input.type.match(/^(u?fixed)((\d+)(x(\d+))?)?$/)
AnnotationClass(s) == IF StartsWith(s, UfixedWord) THEN "ufixed" ELSE "fixed"

AnnotationSuffix(s) ==
    IF StartsWith(s, UfixedWord) THEN Rest(s, UfixedWord) ELSE Rest(s, FixedWord)

XAt(s) == IF \E i \in 1..Len(s) : s[i] = "x"
          THEN CHOOSE i \in 1..Len(s) : s[i] = "x" /\ \A j \in 1..(i - 1) : s[j] # "x"
          ELSE 0

BitsAsString(s) ==
    LET r == AnnotationSuffix(s) IN IF XAt(r) = 0 THEN r ELSE SubSeq(r, 1, XAt(r) - 1)

PlacesAsString(s) ==
    LET r == AnnotationSuffix(s) IN IF XAt(r) = 0 THEN <<>> ELSE SubSeq(r, XAt(r) + 1, Len(r))

\* input.type.match(/^u?fixed(\d+(x\d+)?)?$/)
MatchesDecimalAnnotation(s) ==
    /\ StartsWith(s, UfixedWord) \/ StartsWith(s, FixedWord)
    /\ LET r == AnnotationSuffix(s) IN
       \/ r = <<>>
       \/ /\ BitsAsString(s) # <<>>
          /\ AllDigits(BitsAsString(s))
          /\ XAt(r) # 0 => (PlacesAsString(s) # <<>> /\ AllDigits(PlacesAsString(s)))

DefaultBits == 128
DefaultPlaces == 18

decimalFromTypeValueInputChecksIgnoresBits(type, in, options) ==
    IF ~isTypeValueInput(in)
    THEN TypeMismatchError(type, in, 1, Reason("Input was not a type/value pair", <<>>))
    ELSE IF ~MatchesDecimalAnnotation(in.type)
    THEN TypeMismatchError(type, in, 5, specifiedTypeMessage(in.type))
    ELSE LET typeClass == AnnotationClass(in.type)
             places == IF PlacesAsString(in.type) # <<>>
                       THEN DigitsToNumber(PlacesAsString(in.type)) ELSE DefaultPlaces
         IN IF type.typeClass # typeClass \/ type.places # places
            THEN TypeMismatchError(type, in, 5, specifiedTypeMessage(in.type))
            ELSE NoError

decimalFromTypeValueInputChecksIgnoresPlaces(type, in, options) ==
    IF ~isTypeValueInput(in)
    THEN TypeMismatchError(type, in, 1, Reason("Input was not a type/value pair", <<>>))
    ELSE IF ~MatchesDecimalAnnotation(in.type)
    THEN TypeMismatchError(type, in, 5, specifiedTypeMessage(in.type))
    ELSE LET typeClass == AnnotationClass(in.type)
             bits == IF BitsAsString(in.type) # <<>>
                     THEN DigitsToNumber(BitsAsString(in.type)) ELSE DefaultBits
         IN IF type.typeClass # typeClass \/ type.bits # bits
            THEN TypeMismatchError(type, in, 5, specifiedTypeMessage(in.type))
            ELSE NoError

\* the checks of decimalFromTypeValueInput before it re-enters wrapWithCases:
\* the error thrown, or NoError when the call is made
decimalFromTypeValueInputChecks(type, in, options) ==
    IF ~isTypeValueInput(in)
    THEN TypeMismatchError(type, in, 1, Reason("Input was not a type/value pair", <<>>))
    ELSE IF ~MatchesDecimalAnnotation(in.type)
    THEN TypeMismatchError(type, in, 5, specifiedTypeMessage(in.type))
    ELSE LET typeClass == AnnotationClass(in.type)
             bits == IF BitsAsString(in.type) # <<>>
                     THEN DigitsToNumber(BitsAsString(in.type)) ELSE DefaultBits
             places == IF PlacesAsString(in.type) # <<>>
                       THEN DigitsToNumber(PlacesAsString(in.type)) ELSE DefaultPlaces
         IN IF type.typeClass # typeClass \/ type.bits # bits \/ type.places # places
            THEN TypeMismatchError(type, in, 5, specifiedTypeMessage(in.type))
            ELSE NoError

\* const request = { kind: "decimal", input }
DecimalWrapRequest(in) == [kind |-> "decimal", input |-> in]

decimalFromOtherResumedMismatch(type, in, options, request, response) ==
    IF response.kind # "decimal"
    THEN TypeMismatchError(type, in, 5, Reason("bad response", <<>>))
    ELSE IF response.isNull
    THEN TypeMismatchError(type, in, IF response.partiallyRecognized THEN 5 ELSE 3,
             IF response.hasReason
             THEN Reason("response.reason", <<>>)
             ELSE unrecognizedNumberMessage(type))
    ELSE ValidateAndWrap(type, plusZero(response.big), in)

decimalFromOtherResumedAlwaysThree(type, in, options, request, response) ==
    IF response.kind # "decimal"
    THEN BadResponseTypeError(request, response)
    ELSE IF response.isNull
    THEN TypeMismatchError(type, in, 3,
             IF response.hasReason
             THEN Reason("response.reason", <<>>)
             ELSE unrecognizedNumberMessage(type))
    ELSE ValidateAndWrap(type, plusZero(response.big), in)

\* decimalFromOther after its yield: what it does with the response
decimalFromOtherResumed(type, in, options, request, response) ==
    IF response.kind # "decimal"
    THEN BadResponseTypeError(request, response)
    ELSE IF response.isNull
    THEN TypeMismatchError(type, in, IF response.partiallyRecognized THEN 5 ELSE 3,
             IF response.hasReason
             THEN Reason("response.reason", <<>>)
             ELSE unrecognizedNumberMessage(type))
    ELSE ValidateAndWrap(type, plusZero(response.big), in)

decimalCasesBasicEndsWithEnumError ==
    <<"decimalFromNumber", "decimalFromString", "decimalFromBoxedNumber",
      "decimalFromBoxedString", "decimalFromBigint", "decimalFromBN", "decimalFromBig",
      "decimalFromDecimalValue", "decimalFromIntegerValue", "decimalFromEnumValue",
      "decimalFromOther", "decimalFromEnumError">>

decimalCasesBasic ==
    <<"decimalFromNumber", "decimalFromString", "decimalFromBoxedNumber",
      "decimalFromBoxedString", "decimalFromBigint", "decimalFromBN", "decimalFromBig",
      "decimalFromDecimalValue", "decimalFromIntegerValue", "decimalFromEnumValue",
      "decimalFromEnumError", "decimalFromOther">>

decimalCases == <<"decimalFromTypeValueInput">> \o decimalCasesBasic


(***************************************************************************)
(* wrapWithCases: the dispatch over a case list.                           *)
(* A frame is one running call: its case list, the position of the case    *)
(* being tried, its input and options, and the errors recorded so far.     *)
(***************************************************************************)
Frame(cases, in, options) ==
    [cases |-> cases, idx |-> 1, input |-> in, wrapOptions |-> options, errors |-> <<>>]

BestErrorLatest(errors) ==
    errors[CHOOSE i \in 1..Len(errors) :
              /\ \A j \in 1..Len(errors) : errors[j].specificity <= errors[i].specificity
              /\ \A j \in (i + 1)..Len(errors) : errors[j].specificity < errors[i].specificity]

\* the error raised once every case has failed: the maximum specificity,
\* the earliest recorded among equals
BestError(errors) ==
    errors[CHOOSE i \in 1..Len(errors) :
              /\ \A j \in 1..Len(errors) : errors[j].specificity <= errors[i].specificity
              /\ \A j \in 1..(i - 1) : errors[j].specificity < errors[i].specificity]

Thrown(stk, err) ==
    [depth |-> Len(stk), idx |-> stk[Len(stk)].idx,
     name |-> stk[Len(stk)].cases[stk[Len(stk)].idx], error |-> err]

RECURSIVE CaughtStopsAtFive(_, _)
CaughtStopsAtFive(stk, err) ==
    LET f == stk[Len(stk)]
        errs == Append(f.errors, err)
        log == <<Thrown(stk, err)>>
    IN IF f.idx < Len(f.cases) /\ err.specificity < 5
       THEN [stack |-> [stk EXCEPT ![Len(stk)].idx = @ + 1, ![Len(stk)].errors = errs],
             outcome |-> NoError,
             log |-> log]
       ELSE IF Len(stk) = 1
       THEN [stack |-> <<>>, outcome |-> BestError(errs), log |-> log]
       ELSE LET up == CaughtStopsAtFive(SubSeq(stk, 1, Len(stk) - 1), BestError(errs))
            IN [stack |-> up.stack, outcome |-> up.outcome, log |-> log \o up.log]

\* the calls after the case being tried by the innermost one throws the
\* TypeMismatchError err: the error is recorded and the next case is up, or, the
\* list exhausted, the call throws its best error to its caller (the case of
\* the enclosing call that made it, or the caller of the coercion)
RECURSIVE Caught(_, _)
Caught(stk, err) ==
    LET f == stk[Len(stk)]
        errs == Append(f.errors, err)
        log == <<Thrown(stk, err)>>
    IN IF f.idx < Len(f.cases)
       THEN [stack |-> [stk EXCEPT ![Len(stk)].idx = @ + 1, ![Len(stk)].errors = errs],
             outcome |-> NoError,
             log |-> log]
       ELSE IF Len(stk) = 1
       THEN [stack |-> <<>>, outcome |-> BestError(errs), log |-> log]
       ELSE LET up == Caught(SubSeq(stk, 1, Len(stk) - 1), BestError(errs))
            IN [stack |-> up.stack, outcome |-> up.outcome, log |-> log \o up.log]

NoRequest == [kind |-> "none"]

Top == stack[Len(stack)]

CurrentCase == Top.cases[Top.idx]

\* the engine is about to try a case
Running == outcome.status = "none" /\ stack # <<>> /\ pending.kind = "none"

\* the case being tried ended with result: a value ends every running call
\* (each returns what its case returned), a TypeMismatchError is caught
Ended(result) ==
    IF result.status = "value"
    THEN /\ stack' = <<>>
         /\ outcome' = result
         /\ thrown' = thrown
    ELSE IF result.status = "protocol"
    THEN /\ stack' = <<>>
         /\ outcome' = result
         /\ thrown' = thrown
    ELSE LET c == Caught(stack, result) IN
         /\ stack' = c.stack
         /\ outcome' = c.outcome
         /\ thrown' = thrown \o c.log

Begin == begun' = Append(begun, [depth |-> Len(stack), idx |-> Top.idx, name |-> CurrentCase])

\* a case that neither yields nor re-enters wrapWithCases: begun and ended in one step
TryCase(name, result) ==
    /\ Running
    /\ CurrentCase = name
    /\ Begin
    /\ Ended(result)
    /\ UNCHANGED <<dataType, input, wrapOptions, pending, requests, answers>>

\* return yield* wrapWithCases(dataType, input.value, { ...wrapOptions, loose: true }, cases)
TryTypeValueCase(name, checked, cases) ==
    /\ Running
    /\ CurrentCase = name
    /\ Begin
    /\ IF checked.status = "mismatch"
       THEN Ended(checked)
       ELSE /\ stack' = Append(stack, Frame(cases, Top.input.value,
                                            [Top.wrapOptions EXCEPT !.loose = TRUE]))
            /\ UNCHANGED <<outcome, thrown>>
    /\ UNCHANGED <<dataType, input, wrapOptions, pending, requests, answers>>

(***************************************************************************)
(* The steps of a bytes coercion.                                          *)
(***************************************************************************)
RunBytesFromTypeValueInputFullList ==
    TryTypeValueCase("bytesFromTypeValueInput",
        bytesFromTypeValueInputChecks(dataType, Top.input, Top.wrapOptions),
        bytesCases)

RunBytesFromTypeValueInput ==
    TryTypeValueCase("bytesFromTypeValueInput",
        bytesFromTypeValueInputChecks(dataType, Top.input, Top.wrapOptions),
        bytesCasesBasic)

RunBytesFromHexString ==
    TryCase("bytesFromHexString", bytesFromHexString(dataType, Top.input, Top.wrapOptions))

RunBytesFromBoxedString ==
    TryCase("bytesFromBoxedString", bytesFromBoxedString(dataType, Top.input, Top.wrapOptions))

RunBytesFromUint8ArrayLike ==
    TryCase("bytesFromUint8ArrayLike",
        bytesFromUint8ArrayLike(dataType, Top.input, Top.wrapOptions))

RunBytesFromBytesValue ==
    TryCase("bytesFromBytesValue", bytesFromBytesValue(dataType, Top.input, Top.wrapOptions))

RunBytesFromEncodingTextInput ==
    TryCase("bytesFromEncodingTextInput",
        bytesFromEncodingTextInput(dataType, Top.input, Top.wrapOptions))

RunBytesFailureCase ==
    TryCase("bytesFailureCase", bytesFailureCase(dataType, Top.input, Top.wrapOptions))

(***************************************************************************)
(* The steps of a decimal coercion.                                        *)
(***************************************************************************)
RunDecimalFromTypeValueInput ==
    TryTypeValueCase("decimalFromTypeValueInput",
        decimalFromTypeValueInputChecks(dataType, Top.input, Top.wrapOptions),
        decimalCasesBasic)

RunDecimalFromNumber ==
    TryCase("decimalFromNumber", decimalFromNumber(dataType, Top.input, Top.wrapOptions))

RunDecimalFromStringAsks ==
    /\ Running
    /\ CurrentCase = "decimalFromString"
    /\ Begin
    /\ LET result == decimalFromString(dataType, Top.input, Top.wrapOptions) IN
       IF result.status = "mismatch" /\ result.specificity = 5
       THEN /\ pending' = DecimalWrapRequest(Top.input)
            /\ requests' = Append(requests, DecimalWrapRequest(Top.input))
            /\ UNCHANGED <<stack, outcome, thrown>>
       ELSE /\ Ended(result)
            /\ UNCHANGED <<pending, requests>>
    /\ UNCHANGED <<dataType, input, wrapOptions, answers>>

RunDecimalFromString ==
    TryCase("decimalFromString", decimalFromString(dataType, Top.input, Top.wrapOptions))

RunDecimalFromBoxedNumber ==
    TryCase("decimalFromBoxedNumber",
        decimalFromBoxedNumber(dataType, Top.input, Top.wrapOptions))

RunDecimalFromBoxedString ==
    TryCase("decimalFromBoxedString",
        decimalFromBoxedString(dataType, Top.input, Top.wrapOptions))

RunDecimalFromBigint ==
    TryCase("decimalFromBigint", decimalFromBigint(dataType, Top.input, Top.wrapOptions))

RunDecimalFromBN ==
    TryCase("decimalFromBN", decimalFromBN(dataType, Top.input, Top.wrapOptions))

RunDecimalFromBig ==
    TryCase("decimalFromBig", decimalFromBig(dataType, Top.input, Top.wrapOptions))

RunDecimalFromDecimalValue ==
    TryCase("decimalFromDecimalValue",
        decimalFromDecimalValue(dataType, Top.input, Top.wrapOptions))

RunDecimalFromIntegerValue ==
    TryCase("decimalFromIntegerValue",
        decimalFromIntegerValue(dataType, Top.input, Top.wrapOptions))

RunDecimalFromEnumValue ==
    TryCase("decimalFromEnumValue", decimalFromEnumValue(dataType, Top.input, Top.wrapOptions))

RunDecimalFromEnumError ==
    TryCase("decimalFromEnumError", decimalFromEnumError(dataType, Top.input, Top.wrapOptions))

\* decimalFromOther up to its yield: the request goes out through every
\* running call to the caller of the coercion
RunDecimalFromOtherAsksAboutPair ==
    /\ Running
    /\ CurrentCase = "decimalFromOther"
    /\ Begin
    /\ pending' = DecimalWrapRequest(input)
    /\ requests' = Append(requests, DecimalWrapRequest(input))
    /\ UNCHANGED <<dataType, input, wrapOptions, stack, outcome, thrown, answers>>

RunDecimalFromOther ==
    /\ Running
    /\ CurrentCase = "decimalFromOther"
    /\ Begin
    /\ pending' = DecimalWrapRequest(Top.input)
    /\ requests' = Append(requests, DecimalWrapRequest(Top.input))
    /\ UNCHANGED <<dataType, input, wrapOptions, stack, outcome, thrown, answers>>

\* the caller answers the outstanding request: decimalFromOther goes on
Resume(response) ==
    /\ outcome.status = "none"
    /\ pending.kind # "none"
    /\ pending' = NoRequest
    /\ answers' = Append(answers, response)
    /\ Ended(decimalFromOtherResumed(dataType, Top.input, Top.wrapOptions, pending, response))
    /\ UNCHANGED <<dataType, input, wrapOptions, requests, begun>>


(***************************************************************************)
(* The inputs of the model.                                                *)
(***************************************************************************)
RECURSIVE NumberToDigits(_)
NumberToDigits(n) ==
    IF n < 10 THEN <<DecimalDigits[n + 1]>>
    ELSE Append(NumberToDigits(n \div 10), DecimalDigits[(n % 10) + 1])

String(s) == [tag |-> "string", str |-> s]
BoxedString(s) == [tag |-> "boxedString", str |-> s]
TypeValue(type, value) == [tag |-> "typeValue", type |-> type, value |-> value]
Other == [tag |-> "other"]

\* hex strings of up to n bytes, each byte one of tokens
HexBodies(tokens, n) == {Flatten(t) : t \in SeqsUpTo(tokens, n)}

ByteStrings == {<<"0", "x">> \o b : b \in HexBodies({<<"0", "0">>, <<"A", "b">>}, MaxLength + 1)}

MalformedByteStrings ==
    {<<>>, <<"0", "x", "a">>, <<"a", "b">>, <<"0", "x", "g", "g">>, <<"0", "x", "A", "b", "0">>}

ArrayLike(honest, lengthKind, elems) ==
    [tag |-> "arrayLike", honest |-> honest, lengthKind |-> lengthKind, elems |-> elems]

ArrayLikes ==
    {ArrayLike(TRUE, "ok", e) : e \in SeqsUpTo({0, 171}, MaxLength + 1)}
    \cup {ArrayLike(FALSE, "ok", e) : e \in SeqsUpTo({7, 256}, MaxLength + 1)}
    \cup {ArrayLike(FALSE, "ok", <<-1>>),
          ArrayLike(FALSE, "unsafe", <<>>), ArrayLike(FALSE, "negative", <<>>)}

EncodingText(encoding, text) ==
    [tag |-> "encodingText", encoding |-> encoding, text |-> text]

EncodingTexts ==
    {EncodingText("utf8", t) : t \in SeqsUpTo({65, 233, 55296}, MaxLength)}
    \cup {EncodingText("latin1", <<65>>)}

WrappedBytes(type, asHex) ==
    [tag |-> "wrapped", type |-> type, kind |-> "value", asHex |-> asHex]

WrappedError(type) == [tag |-> "wrapped", type |-> type, kind |-> "error"]

WrappedInteger(typeClass, bits, asBN) ==
    [tag |-> "wrapped", type |-> [typeClass |-> typeClass, bits |-> bits],
     kind |-> "value", asBN |-> asBN]

\* the bytes types a wrapped input can have: one byte more than the targets
BytesSourceTypes == {DynamicBytes} \cup {StaticBytes(n) : n \in 0..(MaxLength + 1)}

\* canonical payloads: lowercase, and of the type's length when static
CanonicalBodies == HexBodies({<<"0", "0">>, <<"a", "b">>}, MaxLength + 1)

WrappedBytesValues ==
    {WrappedBytes(t, <<"0", "x">> \o b) : t \in BytesSourceTypes, b \in CanonicalBodies}

CanonicalBytes ==
    {v \in WrappedBytesValues : v.type.kind = "static" => ByteLength(v.asHex) = v.type.length}

BytesAnnotations ==
    {ByteWord, BytesWord, BytesWord \o <<"0", "1">>, ByteWord \o <<"1">>,
     <<"u", "i", "n", "t", "8">>}
    \cup {BytesWord \o NumberToDigits(n) : n \in 0..(MaxLength + 1)}

\* the values inside the type/value pairs of the model
BytesPairValues ==
    {String(<<"0", "x">> \o b) : b \in HexBodies({<<"A", "b">>}, MaxLength + 1)}
    \cup {v \in CanonicalBytes : \A i \in 3..Len(v.asHex) : v.asHex[i] # "0"}
    \cup {String(<<"0", "x", "a">>), BoxedString(<<"0", "x", "A", "b">>),
          ArrayLike(TRUE, "ok", <<171>>), EncodingText("utf8", <<65>>),
          WrappedError(DynamicBytes), Other,
          TypeValue(BytesWord, String(<<"0", "x">>))}

BytesBasicInputs ==
    {String(s) : s \in ByteStrings \cup MalformedByteStrings}
    \cup {BoxedString(s) : s \in ByteStrings \cup MalformedByteStrings}
    \cup ArrayLikes
    \cup EncodingTexts
    \cup CanonicalBytes
    \cup {WrappedError(t) : t \in BytesSourceTypes}
    \cup {WrappedInteger("uint", 8, 1), Other}

BytesInputs ==
    BytesBasicInputs \cup {TypeValue(a, v) : a \in BytesAnnotations, v \in BytesPairValues}

\* decimal values: the mantissas sit at the edges of the 8-bit ranges
Mantissas == {-129, -128, -1, 0, 1, 15, 127, 128, 255, 256}

Bigs == {Normalize(m, p) : m \in Mantissas, p \in 0..(MaxPlaces + 1)}

Number(cls, big, exp10) == [tag |-> "number", cls |-> cls, big |-> big, exp10 |-> exp10]

BoxedNumber(cls, big, exp10) ==
    [tag |-> "boxedNumber", cls |-> cls, big |-> big, exp10 |-> exp10]

Numbers ==
    {Number("finite", b, 0) : b \in Bigs}
    \cup {Number("NaN", toBig(0), 0), Number("Infinity", toBig(0), 0),
          Number("finite", toBig(1), 16),
          Number("finite", toBig(1), 2)}

NumericStrings ==
    {sign \o int \o frac :
        sign \in {<<>>, <<"-">>},
        int \in {<<>>, <<"0">>, <<"1">>, <<"2", "5">>, <<"1", "2", "8">>, <<"2", "5", "6">>},
        frac \in {<<>>, <<".">>, <<".", "5">>} \cup
                 {<<".">> \o [i \in 1..k |-> "0"] \o <<"5">> : k \in 1..MaxPlaces} \cup
                 {<<".", "5">> \o [i \in 1..k |-> "0"] : k \in 1..MaxPlaces}}

OtherStrings ==
    {<<" ", "1", ".", "5", " ">>, <<"1", " ", "5">>, <<"1", ".", "2", ".", "3">>,
     <<"a", "b", "c">>, <<"0", "x", "1", "0">>, <<"-", "-", "1">>, <<" ">>, <<"+", "1">>}

WrappedDecimal(type, asBig) ==
    [tag |-> "wrapped", type |-> type, kind |-> "value", asBig |-> asBig]

\* canonical decimal values: within the places and the range of their type
CanonicalDecimals ==
    {v \in {WrappedDecimal(t, b) : t \in DecimalTargets, b \in Bigs} :
        validate(v.type, v.asBig, Other).status = "none"}

EnumType == [typeClass |-> "enum"]

WrappedEnum(numericAsBN) ==
    [tag |-> "wrapped", type |-> EnumType, kind |-> "value", numericAsBN |-> numericAsBN]

WrappedEnumError(kind, rawAsBN) ==
    [tag |-> "wrapped", type |-> EnumType, kind |-> "error",
     error |-> [kind |-> kind, rawAsBN |-> rawAsBN]]

WrappedOthers ==
    {WrappedInteger("uint", 8, n) : n \in {0, 1, 255}}
    \cup {WrappedInteger("int", 8, n) : n \in {-128, -1, 127}}
    \cup {WrappedInteger("uint", 16, 256), WrappedError([typeClass |-> "uint", bits |-> 8])}
    \cup {WrappedEnum(n) : n \in {0, 1}}
    \cup {WrappedEnumError("EnumOutOfRangeError", n) : n \in {5, 256}}
    \cup {WrappedEnumError("EnumNotFoundDecodingError", 5), WrappedError(DynamicBytes)}

TypeAnnotation(typeClass, bits, places) ==
    (IF typeClass = "ufixed" THEN UfixedWord ELSE FixedWord)
    \o NumberToDigits(bits) \o <<"x">> \o NumberToDigits(places)

DecimalAnnotations ==
    {TypeAnnotation(t.typeClass, t.bits, t.places) : t \in DecimalTargets}
    \cup {FixedWord, UfixedWord, UfixedWord \o <<"8">>, FixedWord \o <<"8", "x">>,
          FixedWord \o <<"x", "1">>, UfixedWord \o <<"0", "8", "x", "0">>,
          <<"u", "i", "n", "t", "8">>}

DecimalPairValues ==
    {Number("finite", toBig(1), 0), Number("finite", Normalize(15, 1), 0),
     String(<<"1">>), String(<<"2", "5", "6">>), String(<<"1", ".", "5">>),
     String(<<"a", "b", "c">>), BoxedString(<<"1">>),
     [tag |-> "bigint", bn |-> 1], [tag |-> "BN", bn |-> 256],
     [tag |-> "Big", big |-> Normalize(15, 1)],
     WrappedDecimal(DecimalType("ufixed", 8, 0), toBig(1)),
     WrappedDecimal(DecimalType("fixed", 16, 0), toBig(256)),
     WrappedError(DecimalType("ufixed", 8, 0)),
     WrappedInteger("uint", 8, 1), WrappedInteger("uint", 16, 256),
     WrappedEnum(1), WrappedEnumError("EnumOutOfRangeError", 5), Other,
     TypeValue(UfixedWord \o <<"8", "x", "0">>, String(<<"1">>))}

DecimalBasicInputs ==
    Numbers
    \cup {BoxedNumber("finite", b, 0) : b \in {toBig(1), Normalize(15, 1), toBig(256)}}
    \cup {BoxedNumber("NaN", toBig(0), 0)}
    \cup {String(s) : s \in NumericStrings \cup OtherStrings}
    \cup {BoxedString(s) : s \in {<<"1">>, <<"1", ".", "5">>, <<"2", "5", "6">>, <<"a">>}}
    \cup {[tag |-> "bigint", bn |-> n] : n \in Mantissas}
    \cup {[tag |-> "BN", bn |-> n] : n \in Mantissas}
    \cup {[tag |-> "Big", big |-> b] : b \in Bigs}
    \cup CanonicalDecimals
    \cup {WrappedError(t) : t \in DecimalTargets}
    \cup WrappedOthers
    \cup {Other}

DecimalInputs ==
    DecimalBasicInputs
    \cup {TypeValue(a, v) : a \in DecimalAnnotations, v \in DecimalPairValues}

\* what the caller may answer to a request
DecimalResponse(isNull, big, partiallyRecognized, hasReason) ==
    [kind |-> "decimal", isNull |-> isNull, big |-> big,
     partiallyRecognized |-> partiallyRecognized, hasReason |-> hasReason]

Responses ==
    {DecimalResponse(TRUE, toBig(0), pr, hr) : pr \in BOOLEAN, hr \in BOOLEAN}
    \cup {DecimalResponse(FALSE, b, FALSE, FALSE) :
            b \in {toBig(1), toBig(256), toBig(-1), Normalize(5, MaxPlaces + 1),
                  Normalize(25601, MaxPlaces + 1)}}
    \cup {[kind |-> "integer"]}

(***************************************************************************)
(* The coercion: wrapWithCases(dataType, input, wrapOptions, cases) over   *)
(* bytesCases or decimalCases.                                             *)
(***************************************************************************)
IsBytes == dataType.typeClass = "bytes"

WrapOptions == [loose : BOOLEAN]

Init ==
    /\ \/ dataType \in BytesTargets /\ input \in BytesInputs
       \/ dataType \in DecimalTargets /\ input \in DecimalInputs
    /\ wrapOptions \in WrapOptions
    /\ stack = <<Frame(IF dataType.typeClass = "bytes" THEN bytesCases ELSE decimalCases,
                       input, wrapOptions)>>
    /\ pending = NoRequest
    /\ requests = <<>>
    /\ answers = <<>>
    /\ outcome = NoError
    /\ begun = <<>>
    /\ thrown = <<>>

Next ==
    \/ RunBytesFromTypeValueInput
    \/ RunBytesFromHexString
    \/ RunBytesFromBoxedString
    \/ RunBytesFromUint8ArrayLike
    \/ RunBytesFromBytesValue
    \/ RunBytesFromEncodingTextInput
    \/ RunBytesFailureCase
    \/ RunDecimalFromTypeValueInput
    \/ RunDecimalFromNumber
    \/ RunDecimalFromString
    \/ RunDecimalFromBoxedNumber
    \/ RunDecimalFromBoxedString
    \/ RunDecimalFromBigint
    \/ RunDecimalFromBN
    \/ RunDecimalFromBig
    \/ RunDecimalFromDecimalValue
    \/ RunDecimalFromIntegerValue
    \/ RunDecimalFromEnumValue
    \/ RunDecimalFromEnumError
    \/ RunDecimalFromOther
    \/ \E response \in Responses : Resume(response)

Spec == Init /\ [][Next]_vars

\* the coercions of a byte array, a BN, an input of no recognised shape, and
\* the type/value pairs that hold one of these or another pair
LiveInit ==
    /\ Init
    /\ IF input.tag = "typeValue"
       THEN input.value.tag \in {"typeValue", "arrayLike", "BN", "other"}
       ELSE input.tag \in {"arrayLike", "BN", "other"}

\* the engine runs its cases to the end, and the caller answers every request
FairSpec == LiveInit /\ [][Next]_vars /\ WF_vars(Next)


(***************************************************************************)
(* What the properties speak of.                                           *)
(***************************************************************************)
Done == outcome.status # "none"

Static == IsBytes /\ dataType.kind = "static"

HexCharValue(c) == (CHOOSE v \in 1..16 : HexDigits[v] = LowerChar(c)) - 1

\* the bytes a hex string denotes
HexToBytes(s) ==
    [i \in 1..((Len(s) - 2) \div 2) |->
        16 * HexCharValue(s[2 * i + 1]) + HexCharValue(s[2 * i + 2])]

Zeros(n) == [i \in 1..n |-> 0]

\* the input, or for a type/value pair whose annotation is that of the target
\* type, the value in it
Payload(type, in) ==
    IF in.tag = "typeValue"
       /\ (IF type.typeClass = "bytes"
           THEN bytesFromTypeValueInputChecks(type, in, [loose |-> FALSE]).status = "none"
           ELSE decimalFromTypeValueInputChecks(type, in, [loose |-> FALSE]).status = "none")
    THEN in.value
    ELSE in

\* the input holds bytes that some bytes case reads
HoldsBytes(in) ==
    CASE in.tag \in {"string", "boxedString"} -> isByteString(in.str)
      [] in.tag = "arrayLike" ->
            in.honest \/ (in.lengthKind = "ok" /\ \A i \in 1..Len(in.elems) : IsByte(in.elems[i]))
      [] in.tag = "encodingText" -> in.encoding = "utf8" /\ ~stringToBytesThrows(in.text)
      [] in.tag = "wrapped" -> in.type.typeClass = "bytes" /\ in.kind = "value"
      [] OTHER -> FALSE

\* those bytes
SourceBytes(in) ==
    CASE in.tag \in {"string", "boxedString"} -> HexToBytes(in.str)
      [] in.tag = "arrayLike" -> in.elems
      [] in.tag = "encodingText" -> stringToBytes(in.text)
      [] in.tag = "wrapped" -> HexToBytes(in.asHex)

Recognized == IsBytes /\ HoldsBytes(Payload(dataType, input))

RecognizedBytes == SourceBytes(Payload(dataType, input))

\* loose as the case reading the payload sees it
EffectiveLoose == wrapOptions.loose \/ Payload(dataType, input) # input

(***************************************************************************)
(* C1.  A static bytes coercion that returns a value returns "0x" and      *)
(* exactly 2 * length hex digits: the bytes of the source, in order, then  *)
(* zero bytes.                                                             *)
(***************************************************************************)
C1_StaticPayloadIsSourceThenZeros ==
    (Static /\ outcome.status = "value") =>
        /\ Recognized
        /\ Len(RecognizedBytes) <= dataType.length
        /\ Len(outcome.asHex) = 2 + 2 * dataType.length
        /\ outcome.asHex =
              toHexString(RecognizedBytes \o Zeros(dataType.length - Len(RecognizedBytes)))

\* a one-byte source padded to a longer static target
C1_Witness ==
    /\ Static
    /\ outcome.status = "value"
    /\ Recognized
    /\ Len(RecognizedBytes) = 1
    /\ RecognizedBytes[1] # 0
    /\ dataType.length > 1

(***************************************************************************)
(* C2.  As claimed: a source longer than a static target always ends in a  *)
(* specificity-5 mismatch whose reason is the overlong message.            *)
(***************************************************************************)
Overlong == Static /\ Recognized /\ Len(RecognizedBytes) > dataType.length

C2_OverlongAlwaysOverlongReason ==
    (Overlong /\ Done) =>
        /\ outcome.status = "mismatch"
        /\ outcome.specificity = 5
        /\ outcome.reason.text = "overlong"

\* the wrapped value of another bytes type, read with loose = false
RejectedForItsType ==
    /\ Payload(dataType, input).tag = "wrapped"
    /\ ~EffectiveLoose
    /\ ~SameBytesType(Payload(dataType, input).type, dataType)

(***************************************************************************)
(* C2, amended.  A source longer than a static target always ends in a     *)
(* specificity-5 mismatch.  Its reason is the overlong message, with the   *)
(* target length and the source length, unless the source is a wrapped     *)
(* value of another bytes type read with loose = false: then the reason is *)
(* the wrapped-type message.                                               *)
(***************************************************************************)
C2_OverlongFailsWithFive ==
    (Overlong /\ Done) =>
        /\ outcome.status = "mismatch"
        /\ outcome.specificity = 5
        /\ outcome.reason =
              IF RejectedForItsType
              THEN wrappedTypeMessage(Payload(dataType, input).type)
              ELSE overlongMessage(dataType.length, Len(RecognizedBytes))

C2_Witness ==
    /\ Overlong
    /\ Done
    /\ outcome.status = "mismatch"
    /\ outcome.reason.text = "overlong"
    /\ input.tag = "wrapped"


(***************************************************************************)
(* The exact decimal value an input holds.                                 *)
(***************************************************************************)
\* a number too large for the integers of the model: 10^10 and beyond lies
\* outside every range of the targets
Huge(in) == in.tag \in {"number", "boxedNumber"} /\ in.exp10 > 9

HoldsDecimal(in) ==
    CASE in.tag \in {"number", "boxedNumber"} -> in.cls = "finite" /\ ~Huge(in)
      [] in.tag \in {"string", "boxedString"} -> ~BigThrows(trim(in.str))
      [] in.tag \in {"bigint", "BN", "Big"} -> TRUE
      [] in.tag = "wrapped" ->
            \/ in.type.typeClass \in {"fixed", "ufixed", "int", "uint", "enum"}
               /\ in.kind = "value"
            \/ in.type.typeClass = "enum"
               /\ in.kind = "error"
               /\ in.error.kind = "EnumOutOfRangeError"
      [] OTHER -> FALSE

ValueOf(in) ==
    CASE in.tag \in {"number", "boxedNumber"} -> BigFromNumber(in)
      [] in.tag \in {"string", "boxedString"} -> BigFromString(trim(in.str))
      [] in.tag \in {"bigint", "BN"} -> toBig(in.bn)
      [] in.tag = "Big" -> in.big
      [] in.tag = "wrapped" ->
            IF in.type.typeClass \in {"fixed", "ufixed"} THEN in.asBig
            ELSE IF in.type.typeClass \in {"int", "uint"} THEN toBig(in.asBN)
            ELSE IF in.kind = "value" THEN toBig(in.numericAsBN)
            ELSE toBig(in.error.rawAsBN)

\* v * 10^places, an integer when v has at most that many places
Units(v, places) == v.m * Pow(10, places - v.p)

Representable(type, v) ==
    /\ v.p <= type.places
    /\ IF type.typeClass = "ufixed"
       THEN 0 <= Units(v, type.places) /\ Units(v, type.places) < Pow(2, type.bits)
       ELSE /\ -Pow(2, type.bits - 1) <= Units(v, type.places)
            /\ Units(v, type.places) < Pow(2, type.bits - 1)

IsDecimal == ~IsBytes

TooPrecise ==
    /\ IsDecimal
    /\ HoldsDecimal(Payload(dataType, input))
    /\ ValueOf(Payload(dataType, input)).p > dataType.places

OutOfRange ==
    /\ IsDecimal
    /\ \/ Huge(Payload(dataType, input)) /\ Payload(dataType, input).cls = "finite"
       \/ /\ HoldsDecimal(Payload(dataType, input))
          /\ \/ gt(ValueOf(Payload(dataType, input)), maxValue(dataType))
             \/ lt(ValueOf(Payload(dataType, input)), minValue(dataType))

Last(seq) == seq[Len(seq)]

IsFallbackThrow(t) == t.name = "decimalFromOther"

\* the errors thrown by decimalFromOther, one per answer it rejected
FallbackThrows == SelectSeq(thrown, IsFallbackThrow)

\* a case other than the fallback has thrown with specificity 5
RecognizerFailedWithFive ==
    \E i \in 1..Len(thrown) :
        thrown[i].name # "decimalFromOther" /\ thrown[i].error.specificity = 5

\* the coercion returned the value of the resolver's last answer
ReturnedResolverValue ==
    /\ outcome.status = "value"
    /\ answers # <<>>
    /\ Last(answers).kind = "decimal"
    /\ ~Last(answers).isNull
    /\ outcome.asBig = plusZero(Last(answers).big)

(***************************************************************************)
(* C3.  Every decimal value a coercion returns, whichever case returned    *)
(* it, has at most type.places fractional digits and lies in the range of  *)
(* the type: 0 <= v < 2^bits / 10^places when unsigned,                    *)
(* -2^(bits-1) / 10^places <= v < 2^(bits-1) / 10^places when signed.      *)
(***************************************************************************)
C3_ReturnedDecimalIsRepresentable ==
    (IsDecimal /\ outcome.status = "value") =>
        /\ outcome.type = dataType
        /\ Representable(dataType, outcome.asBig)

\* the resolver's value, returned from inside the type-annotated recursion
C3_Witness ==
    /\ IsDecimal
    /\ ReturnedResolverValue
    /\ \E i \in 1..Len(begun) : begun[i].depth = 2 /\ begun[i].name = "decimalFromOther"

(***************************************************************************)
(* C4.  As claimed: an input whose value has more fractional digits than   *)
(* type.places always ends in a mismatch of specificity 5 (stated here for *)
(* the resolvers that answer with the kind asked for).                     *)
(***************************************************************************)
C4_TooPreciseAlwaysFails ==
    (TooPrecise /\ Done /\ outcome.status # "protocol") =>
        (outcome.status = "mismatch" /\ outcome.specificity = 5)

(***************************************************************************)
(* C4, amended.  For an input whose value has more fractional digits than  *)
(* type.places, the case that reads the value throws a mismatch of         *)
(* specificity 5 before any request is issued, and the value is never      *)
(* returned: the coercion ends in a mismatch of specificity 5, or the      *)
(* fallback case, still tried, ends it with the resolver's value or with a *)
(* protocol violation.  An answer of the resolver with too many digits     *)
(* makes the fallback case throw a mismatch of specificity 5.              *)
(***************************************************************************)
C4_TooPreciseRejectedByItsCase ==
    /\ TooPrecise =>
        /\ (requests # <<>> \/ Done) => RecognizerFailedWithFive
        /\ outcome.status = "mismatch" => outcome.specificity = 5
        /\ outcome.status = "value" => ReturnedResolverValue
        /\ outcome.status = "protocol" => Last(answers).kind # "decimal"
    /\ IsDecimal =>
        \A k \in 1..Len(answers) :
            (/\ answers[k].kind = "decimal"
             /\ ~answers[k].isNull
             /\ plusZero(answers[k].big).p > dataType.places) =>
                /\ Len(FallbackThrows) >= k
                /\ FallbackThrows[k].error.specificity = 5
                /\ FallbackThrows[k].error.reason =
                      tooPreciseMessage(dataType.places, plusZero(answers[k].big).p)

\* a too-precise input failed in every case, the fallback included
C4_Witness ==
    /\ TooPrecise
    /\ outcome.status = "mismatch"
    /\ outcome.reason.text = "tooPrecise"
    /\ answers # <<>>
    /\ input.tag = "typeValue"

(***************************************************************************)
(* C5.  As claimed: an input whose value lies outside                      *)
(* [minValue(type), maxValue(type)] always ends in a mismatch of           *)
(* specificity 5 (stated here for the resolvers that answer with the kind  *)
(* asked for).                                                             *)
(***************************************************************************)
C5_OutOfRangeAlwaysFails ==
    (OutOfRange /\ Done /\ outcome.status # "protocol") =>
        (outcome.status = "mismatch" /\ outcome.specificity = 5)

(***************************************************************************)
(* C5, amended.  For an input whose value lies outside                     *)
(* [minValue(type), maxValue(type)], the case that reads the value throws  *)
(* a mismatch of specificity 5 before any request is issued, and the value *)
(* is never returned: the coercion ends in a mismatch of specificity 5, or *)
(* the fallback case, still tried, ends it with the resolver's value or    *)
(* with a protocol violation.  An answer of the resolver outside the range *)
(* (and within the places) makes the fallback case throw a mismatch of     *)
(* specificity 5.                                                          *)
(***************************************************************************)
C5_OutOfRangeRejectedByItsCase ==
    /\ OutOfRange =>
        /\ (requests # <<>> \/ Done) => RecognizerFailedWithFive
        /\ outcome.status = "mismatch" => outcome.specificity = 5
        /\ outcome.status = "value" => ReturnedResolverValue
        /\ outcome.status = "protocol" => Last(answers).kind # "decimal"
    /\ IsDecimal =>
        \A k \in 1..Len(answers) :
            (/\ answers[k].kind = "decimal"
             /\ ~answers[k].isNull
             /\ plusZero(answers[k].big).p <= dataType.places
             /\ \/ gt(plusZero(answers[k].big), maxValue(dataType))
                \/ lt(plusZero(answers[k].big), minValue(dataType))) =>
                /\ Len(FallbackThrows) >= k
                /\ FallbackThrows[k].error.specificity = 5
                /\ FallbackThrows[k].error.reason = outOfRangeMessage

\* an out-of-range input failed in every case, the fallback included
C5_Witness ==
    /\ OutOfRange
    /\ outcome.status = "mismatch"
    /\ outcome.reason.text = "outOfRange"
    /\ answers # <<>>
    /\ input.tag = "wrapped"


(***************************************************************************)
(* The history of one run: the cases begun and the errors thrown at a      *)
(* depth (1: the coercion's own run; 2: the run made by the type-annotated *)
(* case).                                                                  *)
(***************************************************************************)
BegunAt(d) == SelectSeq(begun, LAMBDA b : b.depth = d)

ThrownAt(d) == SelectSeq(thrown, LAMBDA t : t.depth = d)

\* the case list of the run at depth d
CasesAt(d) ==
    IF d = 1 THEN (IF IsBytes THEN bytesCases ELSE decimalCases)
    ELSE (IF IsBytes THEN bytesCasesBasic ELSE decimalCasesBasic)

\* err is the error of the earliest entry of maximum specificity
IsBestOf(err, entries) ==
    \E i \in 1..Len(entries) :
        /\ err = entries[i].error
        /\ \A j \in 1..Len(entries) : entries[j].error.specificity <= err.specificity
        /\ \A j \in 1..(i - 1) : entries[j].error.specificity < err.specificity

(***************************************************************************)
(* C6.  When every case of a run has thrown a mismatch, the run throws one *)
(* of the errors its cases threw: one of maximum specificity, and among    *)
(* those the one of the earliest case.  This holds of the coercion's own   *)
(* run and of the run made by the type-annotated case, whose error is what *)
(* the type-annotated case throws.                                         *)
(***************************************************************************)
C6_BestErrorIsRaised ==
    /\ outcome.status = "mismatch" =>
          /\ Len(ThrownAt(1)) = Len(CasesAt(1))
          /\ IsBestOf(outcome, ThrownAt(1))
    /\ Len(ThrownAt(2)) = Len(CasesAt(2)) =>
          /\ ThrownAt(1) # <<>>
          /\ ThrownAt(1)[1].idx = 1
          /\ IsBestOf(ThrownAt(1)[1].error, ThrownAt(2))

\* two different errors tie at the maximum; the earlier one is raised
C6_Witness ==
    /\ outcome.status = "mismatch"
    /\ \E i, j \in 1..Len(ThrownAt(1)) :
          /\ i < j
          /\ ThrownAt(1)[i].error = outcome
          /\ ThrownAt(1)[j].error.specificity = outcome.specificity
          /\ ThrownAt(1)[j].error # outcome
    /\ Len(ThrownAt(2)) = Len(CasesAt(2))

(***************************************************************************)
(* C7.  The cases of a run are begun in list order, each only once every   *)
(* case before it has thrown a mismatch; a mismatch of any specificity     *)
(* thrown by a case that is not the last brings up the next case; and once *)
(* a case has returned a value no case is begun.                           *)
(***************************************************************************)
InListOrder(d) ==
    /\ \A i \in 1..Len(BegunAt(d)) :
          BegunAt(d)[i].idx = i /\ BegunAt(d)[i].name = CasesAt(d)[i]
    /\ \A i \in 1..Len(ThrownAt(d)) : ThrownAt(d)[i].idx = i
    /\ Len(ThrownAt(d)) <= Len(BegunAt(d))
    /\ Len(BegunAt(d)) <= Len(ThrownAt(d)) + 1

NextCaseIsUp ==
    (Len(thrown') > Len(thrown) /\ Last(thrown').idx < Len(CasesAt(Last(thrown').depth))) =>
        /\ outcome'.status = "none"
        /\ Len(stack') = Last(thrown').depth
        /\ stack'[Len(stack')].idx = Last(thrown').idx + 1

NothingAfterAValue == outcome.status = "value" => (begun' = begun /\ outcome' = outcome)

C7_CasesInOrderFirstValueWins ==
    /\ [](InListOrder(1) /\ InListOrder(2))
    /\ [][NextCaseIsUp /\ NothingAfterAValue]_vars

\* a case returned a value after an earlier case had thrown with specificity 5
C7_Witness ==
    /\ outcome.status = "value"
    /\ \E i \in 1..Len(ThrownAt(1)) : ThrownAt(1)[i].error.specificity = 5
    /\ Len(BegunAt(1)) > 1

(***************************************************************************)
(* The cases in flight: begun and neither ended nor abandoned.             *)
(***************************************************************************)
InFlightAt(d) == IF Done THEN 0 ELSE Len(BegunAt(d)) - Len(ThrownAt(d))

InFlight == InFlightAt(1) + InFlightAt(2)

Outstanding == Len(requests) - Len(answers)

IsFallbackBegun(b) == b.name = "decimalFromOther"

RequestsOnlyFromFallback ==
    /\ IsBytes => requests = <<>>
    /\ Len(requests) = Len(SelectSeq(begun, IsFallbackBegun))
    /\ pending.kind # "none" =>
          /\ Last(begun).name = "decimalFromOther"
          /\ Last(begun).depth = Len(stack)
          /\ pending = Last(requests)
    /\ (Outstanding = 1) = (pending.kind # "none")

(***************************************************************************)
(* C8.  As claimed: at most one case is in flight in a coercion, at most   *)
(* one request is outstanding, and only decimalFromOther issues requests.  *)
(***************************************************************************)
C8_OneCaseInFlight ==
    /\ InFlight <= 1
    /\ Outstanding <= 1
    /\ RequestsOnlyFromFallback

(***************************************************************************)
(* C8, amended.  At most one case is in flight in each run; the            *)
(* type-annotated case stays in flight while the run it made tries its     *)
(* cases, so a coercion has up to two cases in flight, and two exactly     *)
(* when it is suspended inside that run.  At most one request is           *)
(* outstanding; a bytes coercion issues none; in a decimal coercion every  *)
(* request is issued by decimalFromOther, and the coercion is suspended    *)
(* only while decimalFromOther is the innermost case in flight.            *)
(***************************************************************************)
C8_OneCaseInFlightPerRun ==
    /\ InFlightAt(1) \in {0, 1}
    /\ InFlightAt(2) \in {0, 1}
    /\ InFlightAt(2) = 1 => pending.kind # "none"
    /\ (Len(stack) = 2) =>
          /\ InFlightAt(1) = 1
          /\ Last(BegunAt(1)).name \in {"bytesFromTypeValueInput", "decimalFromTypeValueInput"}
    /\ Outstanding \in {0, 1}
    /\ RequestsOnlyFromFallback

\* suspended inside the run made by the type-annotated case
C8_Witness ==
    /\ pending.kind # "none"
    /\ Len(stack) = 2
    /\ InFlight = 2

(***************************************************************************)
(* C9.  A response whose kind is not "decimal" ends the coercion in the    *)
(* step that receives it with a BadResponseTypeError carrying the request  *)
(* and the response: no error is recorded, no case is begun, no request is *)
(* issued, every running call is left, and nothing happens afterwards.     *)
(***************************************************************************)
BadResponseEndsCoercion ==
    (Len(answers') > Len(answers) /\ Last(answers').kind # "decimal") =>
        /\ outcome' = BadResponseTypeError(pending, Last(answers'))
        /\ pending.kind = "decimal"
        /\ thrown' = thrown
        /\ begun' = begun
        /\ requests' = requests
        /\ pending' = NoRequest
        /\ stack' = <<>>

NothingAfterAViolation == outcome.status = "protocol" => vars' = vars

C9_BadResponseIsFatal ==
    /\ [](outcome.status = "protocol" => (answers # <<>> /\ Last(answers).kind # "decimal"))
    /\ [][BadResponseEndsCoercion /\ NothingAfterAViolation]_vars

\* a violation inside the type-annotated recursion, after a specificity-5 mismatch
C9_Witness ==
    /\ outcome.status = "protocol"
    /\ \E i \in 1..Len(begun) : begun[i].depth = 2 /\ begun[i].name = "decimalFromOther"
    /\ \E i \in 1..Len(thrown) : thrown[i].error.specificity = 5

(***************************************************************************)
(* C10.  A canonical bytes or decimal value of the target type, coerced    *)
(* with loose = false, comes back: no request is issued, and the coercion  *)
(* returns a value of the target type, of kind "value", with an equal      *)
(* payload.                                                                *)
(***************************************************************************)
CanonicalOfTarget ==
    /\ input \in CanonicalBytes \cup CanonicalDecimals
    /\ input.type = dataType
    /\ ~wrapOptions.loose

C10_CanonicalRoundTrip ==
    CanonicalOfTarget =>
        /\ requests = <<>>
        /\ outcome.status # "mismatch"
        /\ Done =>
              /\ outcome.status = "value"
              /\ outcome.type = input.type
              /\ outcome.kind = "value"
              /\ IF IsBytes THEN outcome.asHex = input.asHex
                            ELSE outcome.asBig = input.asBig

\* a static bytes value of two bytes came back
C10_Witness ==
    /\ CanonicalOfTarget
    /\ Static
    /\ dataType.length = 2
    /\ outcome.status = "value"
    /\ outcome.asHex = input.asHex

(***************************************************************************)
(* C11.  Every value a coercion returns has kind "value" and the target    *)
(* type as its type, whatever type the input carried: also for a wrapped   *)
(* value of another type accepted under loose = true, for the value of a   *)
(* type/value pair, and for the resolver's value.                          *)
(***************************************************************************)
C11_ReturnedValueHasTargetType ==
    outcome.status = "value" =>
        /\ outcome.kind = "value"
        /\ outcome.type = dataType

\* a wrapped value of another type, accepted under loose = true
C11_Witness ==
    /\ outcome.status = "value"
    /\ Payload(dataType, input).tag = "wrapped"
    /\ Payload(dataType, input).type # dataType
    /\ outcome.type = dataType

(***************************************************************************)
(* A type/value pair whose annotation is a decimal annotation that parses  *)
(* to another class, bits or places than the target's.                     *)
(***************************************************************************)
DeclaresOtherDecimalType ==
    /\ IsDecimal
    /\ input.tag = "typeValue"
    /\ MatchesDecimalAnnotation(input.type)
    /\ \/ AnnotationClass(input.type) # dataType.typeClass
       \/ (IF BitsAsString(input.type) # <<>>
           THEN DigitsToNumber(BitsAsString(input.type)) ELSE DefaultBits) # dataType.bits
       \/ (IF PlacesAsString(input.type) # <<>>
           THEN DigitsToNumber(PlacesAsString(input.type)) ELSE DefaultPlaces) # dataType.places

DeclaredTypeError == TypeMismatchError(dataType, input, 5, specifiedTypeMessage(input.type))

(***************************************************************************)
(* C12.  As claimed: for such a pair the coercion ends, in every run, in   *)
(* the specificity-5 mismatch saying that the declared type is not the     *)
(* target (stated here for the resolvers that answer with the kind asked   *)
(* for).                                                                   *)
(***************************************************************************)
C12_OtherDeclaredTypeAlwaysFails ==
    (DeclaresOtherDecimalType /\ Done /\ outcome.status # "protocol") =>
        outcome = DeclaredTypeError

(***************************************************************************)
(* C12, amended.  For such a pair the type-annotated case throws the       *)
(* specificity-5 mismatch saying that the declared type is not the target, *)
(* and the value of the pair is never looked at.  The run goes on: the     *)
(* fallback case asks the resolver about the pair, and the coercion ends   *)
(* in that same mismatch unless the resolver answers with a value that     *)
(* passes validation (returned) or with another kind (protocol             *)
(* violation).                                                             *)
(***************************************************************************)
C12_OtherDeclaredTypeRejectedByItsCase ==
    DeclaresOtherDecimalType =>
        /\ thrown # <<>> =>
              thrown[1] = [depth |-> 1, idx |-> 1, name |-> "decimalFromTypeValueInput",
                           error |-> DeclaredTypeError]
        /\ BegunAt(2) = <<>>
        /\ \A k \in 1..Len(requests) : requests[k] = DecimalWrapRequest(input)
        /\ Done => Len(answers) = 1
        /\ outcome.status = "mismatch" => outcome = DeclaredTypeError
        /\ outcome.status = "value" => ReturnedResolverValue
        /\ outcome.status = "protocol" => Last(answers).kind # "decimal"

\* the resolver did not recognise the pair either, with a specificity-5
\* answer of its own: the earlier error is the one raised
C12_Witness ==
    /\ DeclaresOtherDecimalType
    /\ outcome = DeclaredTypeError
    /\ Len(FallbackThrows) = 1
    /\ FallbackThrows[1].error.specificity = 5
    /\ FallbackThrows[1].error # DeclaredTypeError

(***************************************************************************)
(* The names, in the order in which a run at depth d has begun its cases.  *)
(***************************************************************************)
BegunNames(d) == [i \in 1..Len(BegunAt(d)) |-> BegunAt(d)[i].name]

IsPrefix(s, t) == Len(s) <= Len(t) /\ s = SubSeq(t, 1, Len(s))

Tail1(s) == SubSeq(s, 2, Len(s))

HasThrown(d, name) == \E i \in 1..Len(ThrownAt(d)) : ThrownAt(d)[i].name = name

HasBegun(d, name) == \E i \in 1..Len(BegunAt(d)) : BegunAt(d)[i].name = name

\* the depth of the run that reads the payload
PayloadDepth ==
    IF input.tag = "typeValue"
       /\ (IF IsBytes
           THEN bytesFromTypeValueInputChecks(dataType, input, wrapOptions).status = "none"
           ELSE decimalFromTypeValueInputChecks(dataType, input, wrapOptions).status = "none")
    THEN 2
    ELSE 1

(***************************************************************************)
(* C13.  As claimed: a bytes run tries its cases in the order              *)
(* type-annotated pair, hex string, boxed string, byte-array-like,         *)
(* encoding/text pair, wrapped value, catch-all.                           *)
(***************************************************************************)
ListedBytesOrder ==
    <<"bytesFromTypeValueInput", "bytesFromHexString", "bytesFromBoxedString",
      "bytesFromUint8ArrayLike", "bytesFromEncodingTextInput", "bytesFromBytesValue",
      "bytesFailureCase">>

C13_BytesCasesInListedOrder ==
    IsBytes =>
        /\ IsPrefix(BegunNames(1), ListedBytesOrder)
        /\ IsPrefix(BegunNames(2), Tail1(ListedBytesOrder))

(***************************************************************************)
(* C13, amended.  A bytes run tries its cases in the order type-annotated  *)
(* pair, hex string, boxed string, byte-array-like, wrapped value,         *)
(* encoding/text pair, catch-all (the run made by the type-annotated case  *)
(* in the same order without the first).  The wrapped-value case is tried  *)
(* before the encoding/text case: a value returned for an encoding/text    *)
(* pair is returned after the wrapped-value case has thrown, and when a    *)
(* wrapped value is returned the encoding/text case has not been begun.    *)
(***************************************************************************)
SourceBytesOrder ==
    <<"bytesFromTypeValueInput", "bytesFromHexString", "bytesFromBoxedString",
      "bytesFromUint8ArrayLike", "bytesFromBytesValue", "bytesFromEncodingTextInput",
      "bytesFailureCase">>

C13_BytesCasesInSourceOrder ==
    IsBytes =>
        /\ IsPrefix(BegunNames(1), SourceBytesOrder)
        /\ IsPrefix(BegunNames(2), Tail1(SourceBytesOrder))
        /\ (outcome.status = "value" /\ Payload(dataType, input).tag = "encodingText") =>
              HasThrown(PayloadDepth, "bytesFromBytesValue")
        /\ (outcome.status = "value" /\ Payload(dataType, input).tag = "wrapped") =>
              ~HasBegun(PayloadDepth, "bytesFromEncodingTextInput")

\* an encoding/text pair accepted inside the type-annotated recursion
C13_Witness ==
    /\ IsBytes
    /\ outcome.status = "value"
    /\ input.tag = "typeValue"
    /\ Payload(dataType, input).tag = "encodingText"
    /\ HasThrown(2, "bytesFromBytesValue")

(***************************************************************************)
(* C14.  Every coercion ends in exactly one outcome.  A bytes coercion     *)
(* never suspends and never ends in a protocol violation; the              *)
(* type-annotated case is begun at most once, and the run it makes makes   *)
(* no run of its own.  With every request answered, a coercion eventually  *)
(* ends, in a value, a mismatch or a protocol violation, and its outcome   *)
(* never changes afterwards.  A suspended coercion has no outcome, and the *)
(* only step it can take is the one that receives an answer.               *)
(***************************************************************************)
IsTypeValueBegun(b) == b.name \in {"bytesFromTypeValueInput", "decimalFromTypeValueInput"}

Suspended == pending.kind # "none"

OneOutcomeShape ==
    /\ outcome.status \in {"none", "value", "mismatch", "protocol"}
    /\ IsBytes => (requests = <<>> /\ ~Suspended /\ outcome.status # "protocol")
    /\ Len(stack) <= 2
    /\ Len(SelectSeq(begun, IsTypeValueBegun)) <= 1
    /\ Suspended => ~Done
    /\ Done => stack = <<>>

OutcomeIsFinal == Done => outcome' = outcome

OnlyAnAnswerResumes == Suspended => Len(answers') = Len(answers) + 1

C14_EndsInExactlyOneOutcome ==
    /\ <>Done
    /\ []OneOutcomeShape
    /\ [][OutcomeIsFinal /\ OnlyAnAnswerResumes]_vars

\* a decimal coercion that ended after its request was answered
C14_Witness ==
    /\ IsDecimal
    /\ Done
    /\ outcome.status = "mismatch"
    /\ Len(answers) = 2
    /\ Len(SelectSeq(begun, IsTypeValueBegun)) = 1
    /\ BegunAt(2) # <<>>

(***************************************************************************)
(* C15.  With loose = false a wrapped bytes value of a type other than the *)
(* target (dynamic against static, or static of another length) makes      *)
(* bytesFromBytesValue throw a specificity-5 mismatch with the             *)
(* wrapped-type message, and the coercion ends in that mismatch.  A        *)
(* wrapped bytes result of kind "error" makes bytesFromBytesValue throw a  *)
(* specificity-5 mismatch with the error-result message at either loose    *)
(* setting, and the coercion ends in a mismatch with that specificity and  *)
(* reason.                                                                 *)
(***************************************************************************)
WrappedBytesOfOtherType ==
    /\ IsBytes
    /\ input.tag = "wrapped"
    /\ input.type.typeClass = "bytes"
    /\ input.kind = "value"
    /\ input.type # dataType
    /\ ~wrapOptions.loose

WrappedBytesError ==
    /\ IsBytes
    /\ Payload(dataType, input).tag = "wrapped"
    /\ Payload(dataType, input).type.typeClass = "bytes"
    /\ Payload(dataType, input).kind = "error"

\* what bytesFromBytesValue has thrown in the run at depth d, if it has
ThrownBy(d, name) ==
    LET i == CHOOSE i \in 1..Len(ThrownAt(d)) : ThrownAt(d)[i].name = name
    IN ThrownAt(d)[i].error

C15_OtherTypeOrErrorRejected ==
    /\ WrappedBytesOfOtherType =>
          /\ HasThrown(1, "bytesFromBytesValue") =>
                ThrownBy(1, "bytesFromBytesValue") =
                    TypeMismatchError(dataType, input, 5, wrappedTypeMessage(input.type))
          /\ Done =>
                /\ HasThrown(1, "bytesFromBytesValue")
                /\ outcome = ThrownBy(1, "bytesFromBytesValue")
    /\ WrappedBytesError =>
          /\ HasThrown(PayloadDepth, "bytesFromBytesValue") =>
                ThrownBy(PayloadDepth, "bytesFromBytesValue") =
                    TypeMismatchError(dataType, Payload(dataType, input), 5, errorResultMessage)
          /\ Done =>
                /\ HasThrown(PayloadDepth, "bytesFromBytesValue")
                /\ outcome = ThrownBy(PayloadDepth, "bytesFromBytesValue")

\* a one-byte static value against a two-byte static target: it would fit
C15_Witness ==
    /\ WrappedBytesOfOtherType
    /\ Done
    /\ input.type = StaticBytes(1)
    /\ dataType = StaticBytes(2)
    /\ outcome.status = "mismatch"
    /\ outcome.specificity = 5

(***************************************************************************)
(* A canonical bytes value: lowercase hex digits, and when its type is     *)
(* static exactly as many bytes as the type says.                          *)
(***************************************************************************)
IsCanonicalBytes(v) ==
    /\ v.tag = "wrapped"
    /\ v.type.typeClass = "bytes"
    /\ v.kind = "value"
    /\ isByteString(v.asHex)
    /\ v.asHex = toLowerCase(v.asHex)
    /\ v.type.kind = "static" => ByteLength(v.asHex) = v.type.length

\* a canonical value of another bytes type, read with loose = true
LooseBytesOfOtherType ==
    /\ IsBytes
    /\ IsCanonicalBytes(Payload(dataType, input))
    /\ Payload(dataType, input).type # dataType
    /\ EffectiveLoose

SatisfiesLengthInvariant(type, asHex) ==
    /\ isByteString(asHex)
    /\ asHex = toLowerCase(asHex)
    /\ type.kind = "static" => ByteLength(asHex) = type.length

(***************************************************************************)
(* C16.  As claimed: with loose = true a canonical bytes value of another  *)
(* bytes type, given directly or as the value of a matching type/value     *)
(* pair, is always accepted, and the result satisfies the length invariant *)
(* of the target (stated here for the targets of one byte or more).        *)
(***************************************************************************)
C16_LooseAlwaysAccepts ==
    (LooseBytesOfOtherType /\ Done /\ (Static => dataType.length >= 1)) =>
        /\ outcome.status = "value"
        /\ SatisfiesLengthInvariant(dataType, outcome.asHex)

(***************************************************************************)
(* C16, amended.  With loose = true a canonical bytes value of another     *)
(* bytes type, given directly or as the value of a matching type/value     *)
(* pair, is accepted when the target is dynamic or at least as long as the *)
(* value: the result has the target type and the value's bytes, padded     *)
(* with zero bytes to the target's length.  When the value is longer than  *)
(* a static target the coercion ends in the specificity-5 overlong         *)
(* mismatch.                                                               *)
(***************************************************************************)
C16_LooseAcceptsWhatFits ==
    (LooseBytesOfOtherType /\ Done) =>
        LET v == Payload(dataType, input)
            n == ByteLength(v.asHex)
        IN IF dataType.kind = "static" /\ n > dataType.length
           THEN /\ outcome.status = "mismatch"
                /\ outcome.specificity = 5
                /\ outcome.reason = overlongMessage(dataType.length, n)
           ELSE /\ outcome.status = "value"
                /\ outcome.type = dataType
                /\ SatisfiesLengthInvariant(dataType, outcome.asHex)
                /\ outcome.asHex =
                      IF dataType.kind = "static"
                      THEN toHexString(HexToBytes(v.asHex) \o Zeros(dataType.length - n))
                      ELSE v.asHex

\* a one-byte static value, held by a pair, accepted by a two-byte target
C16_Witness ==
    /\ LooseBytesOfOtherType
    /\ input.tag = "typeValue"
    /\ Payload(dataType, input).type = StaticBytes(1)
    /\ dataType = StaticBytes(2)
    /\ outcome.status = "value"

(***************************************************************************)
(* The wrapped inputs a decimal coercion reads as integers: an integer     *)
(* value, an enum value, an enum error of kind EnumOutOfRangeError.        *)
(***************************************************************************)
IsWrappedIntegerLike(v) ==
    /\ v.tag = "wrapped"
    /\ \/ v.type.typeClass \in {"int", "uint"} /\ v.kind = "value"
       \/ v.type.typeClass = "enum" /\ v.kind = "value"
       \/ v.type.typeClass = "enum" /\ v.kind = "error" /\ v.error.kind = "EnumOutOfRangeError"

IntegerOf(v) ==
    IF v.type.typeClass \in {"int", "uint"} THEN v.asBN
    ELSE IF v.kind = "value" THEN v.numericAsBN
    ELSE v.error.rawAsBN

CaseReading(v) ==
    IF v.type.typeClass \in {"int", "uint"} THEN "decimalFromIntegerValue"
    ELSE IF v.kind = "value" THEN "decimalFromEnumValue"
    ELSE "decimalFromEnumError"

\* loose as the run reading the payload has it
LooseAtPayload == wrapOptions.loose \/ PayloadDepth = 2

(***************************************************************************)
(* C17.  As claimed: with loose = false no run of a decimal coercion       *)
(* returns a value for a wrapped integer value, enum value or enum         *)
(* out-of-range error (stated here for the resolvers that answer with the  *)
(* kind asked for).                                                        *)
(***************************************************************************)
C17_StrictNeverReturnsValue ==
    (/\ IsDecimal
     /\ IsWrappedIntegerLike(input)
     /\ ~wrapOptions.loose
     /\ Done
     /\ outcome.status # "protocol") => outcome.status = "mismatch"

(***************************************************************************)
(* C17, amended.  With loose = false the case that reads a wrapped integer *)
(* value (enum value, enum out-of-range error) throws a specificity-5      *)
(* mismatch with the wrapped-type message, and the integer is never        *)
(* returned: the coercion ends in a specificity-5 mismatch unless the      *)
(* fallback case returns the resolver's value or meets a protocol          *)
(* violation.  With loose = true, set by the caller or by a matching       *)
(* type/value pair, an integer the target can represent is returned as the *)
(* value, with no request issued; one it cannot represent makes the case   *)
(* throw the specificity-5 out-of-range mismatch.                          *)
(***************************************************************************)
C17_IntegerAcceptedOnlyWhenLoose ==
    (IsDecimal /\ IsWrappedIntegerLike(Payload(dataType, input))) =>
        LET v == Payload(dataType, input)
            d == PayloadDepth
            name == CaseReading(v)
        IN /\ (requests # <<>> \/ Done) => HasBegun(d, name)
           /\ IF ~LooseAtPayload
              THEN /\ HasThrown(d, name) =>
                         ThrownBy(d, name) =
                             TypeMismatchError(dataType, v, 5, wrappedTypeMessage(v.type))
                   /\ requests # <<>> => HasThrown(d, name)
                   /\ outcome.status = "mismatch" => outcome.specificity = 5
                   /\ outcome.status = "value" => ReturnedResolverValue
              ELSE IF Representable(dataType, toBig(IntegerOf(v)))
              THEN /\ requests = <<>>
                   /\ ~HasThrown(d, name)
                   /\ Done => outcome = DecimalValue(dataType, toBig(IntegerOf(v)))
              ELSE /\ HasThrown(d, name) =>
                         ThrownBy(d, name) = TypeMismatchError(dataType, v, 5, outOfRangeMessage)
                   /\ requests # <<>> => HasThrown(d, name)
                   /\ outcome.status = "mismatch" => outcome.specificity = 5
                   /\ outcome.status = "value" => ReturnedResolverValue

\* an integer value held by a matching pair, accepted with loose = false
\* at the top level
C17_Witness ==
    /\ IsDecimal
    /\ input.tag = "typeValue"
    /\ ~wrapOptions.loose
    /\ IsWrappedIntegerLike(Payload(dataType, input))
    /\ Payload(dataType, input).type.typeClass = "uint"
    /\ outcome = DecimalValue(dataType, toBig(1))
    /\ requests = <<>>

(***************************************************************************)
(* C18.  The request the caller receives is the one decimalFromOther made, *)
(* about the input of the run it was begun in.  The step that receives the *)
(* answer resumes that case and begins none: a value it returns is the     *)
(* answer's; a mismatch it throws is recorded for its position, and the    *)
(* run goes on after it: at the top level the list is exhausted, and       *)
(* inside the type-annotated recursion the nested run is exhausted, the    *)
(* type-annotated case throws, and the outer run is at its second case.    *)
(* No case of a run is begun twice.                                        *)
(***************************************************************************)
FallbacksBegun == SelectSeq(begun, IsFallbackBegun)

RequestsAreTheCases ==
    /\ Len(requests) = Len(FallbacksBegun)
    /\ \A k \in 1..Len(requests) :
          requests[k] = [kind |-> "decimal",
                         input |-> IF FallbacksBegun[k].depth = 2 THEN input.value ELSE input]
    /\ Suspended => pending = Last(requests)

ResumesTheSuspendedCase ==
    Len(answers') = Len(answers) + 1 =>
        /\ Suspended
        /\ ~Suspended'
        /\ begun' = begun
        /\ requests' = requests
        /\ Last(begun).name = "decimalFromOther"
        /\ Last(begun).depth = Len(stack)
        /\ outcome'.status = "value" => outcome'.asBig = plusZero(Last(answers').big)
        /\ outcome'.status # "value" /\ Last(answers').kind = "decimal" =>
              /\ Len(thrown') > Len(thrown)
              /\ thrown'[Len(thrown) + 1].depth = Last(begun).depth
              /\ thrown'[Len(thrown) + 1].idx = Last(begun).idx
              /\ thrown'[Len(thrown) + 1].name = "decimalFromOther"
              /\ thrown'[Len(thrown) + 1].error.input = pending.input
              /\ IF Len(stack) = 2
                 THEN /\ Len(thrown') = Len(thrown) + 2
                      /\ thrown'[Len(thrown) + 2].depth = 1
                      /\ thrown'[Len(thrown) + 2].name = "decimalFromTypeValueInput"
                      /\ outcome'.status = "none"
                      /\ Len(stack') = 1
                      /\ stack'[1].idx = 2
                 ELSE /\ Len(thrown') = Len(thrown) + 1
                      /\ outcome'.status = "mismatch"
                      /\ stack' = <<>>

C18_ResumeContinuesInPlace ==
    /\ [](RequestsAreTheCases /\ InListOrder(1) /\ InListOrder(2))
    /\ [][ResumesTheSuspendedCase]_vars

\* after a rejected answer inside the recursion the outer run has gone on
\* and is suspended in its own fallback case
C18_Witness ==
    /\ Len(answers) = 1
    /\ Len(requests) = 2
    /\ Suspended
    /\ requests[1] = [kind |-> "decimal", input |-> input.value]
    /\ requests[2] = [kind |-> "decimal", input |-> input]

(***************************************************************************)
(* C19.  An answer of kind "decimal" without a value makes the fallback    *)
(* case throw a mismatch of specificity 5 when the answer reports partial  *)
(* recognition and 3 otherwise, with the answer's reason when it has one   *)
(* and the unrecognised-number message otherwise.  An answer with a value  *)
(* is validated as any case's value is: too many places is a specificity-5 *)
(* too-precise mismatch (also when the value is out of range as well), a   *)
(* value out of range a specificity-5 out-of-range mismatch, and a value   *)
(* that passes is returned.                                                *)
(***************************************************************************)
AnswerIsJudged ==
    (Len(answers') = Len(answers) + 1 /\ Last(answers').kind = "decimal") =>
        LET a == Last(answers')
            in == pending.input
            v == plusZero(a.big)
            thrownNow == thrown'[Len(thrown) + 1].error
        IN IF a.isNull
           THEN /\ Len(thrown') > Len(thrown)
                /\ thrownNow =
                      TypeMismatchError(dataType, in,
                          IF a.partiallyRecognized THEN 5 ELSE 3,
                          IF a.hasReason THEN Reason("response.reason", <<>>)
                          ELSE unrecognizedNumberMessage(dataType))
           ELSE IF v.p > dataType.places
           THEN /\ Len(thrown') > Len(thrown)
                /\ thrownNow = TypeMismatchError(dataType, in, 5,
                                   tooPreciseMessage(dataType.places, v.p))
           ELSE IF ~Representable(dataType, v)
           THEN /\ Len(thrown') > Len(thrown)
                /\ thrownNow = TypeMismatchError(dataType, in, 5, outOfRangeMessage)
           ELSE /\ thrown' = thrown
                /\ outcome' = DecimalValue(dataType, v)

C19_AnswerIsJudged == [][AnswerIsJudged]_vars

\* an answer with too many places and out of range: too precise is reported
C19_Witness ==
    /\ IsDecimal
    /\ answers # <<>>
    /\ answers[1].kind = "decimal"
    /\ ~answers[1].isNull
    /\ answers[1].big.p > dataType.places
    /\ gt(answers[1].big, maxValue(dataType))
    /\ FallbackThrows # <<>>
    /\ FallbackThrows[1].error.reason.text = "tooPrecise"

(***************************************************************************)
(* The bytes annotations and what each implies: "byte" one byte, "bytes"   *)
(* and digits that many bytes, "bytes" alone a dynamic length.             *)
(***************************************************************************)
AnnotationImpliesTarget(s, type) ==
    \/ s = ByteWord /\ type.kind = "static" /\ type.length = 1
    \/ s = BytesWord /\ type.kind = "dynamic"
    \/ /\ StartsWith(s, BytesWord)
       /\ Len(s) > Len(BytesWord)
       /\ AllDigits(Rest(s, BytesWord))
       /\ type.kind = "static"
       /\ DigitsToNumber(Rest(s, BytesWord)) = type.length

\* what the basic bytes cases make of v with loose = true: the value of the
\* first case that returns, or the earliest error of the highest specificity
BasicBytesResults(type, v) ==
    <<bytesFromHexString(type, v, [loose |-> TRUE]),
      bytesFromBoxedString(type, v, [loose |-> TRUE]),
      bytesFromUint8ArrayLike(type, v, [loose |-> TRUE]),
      bytesFromBytesValue(type, v, [loose |-> TRUE]),
      bytesFromEncodingTextInput(type, v, [loose |-> TRUE]),
      bytesFailureCase(type, v, [loose |-> TRUE])>>

IsOutcomeOf(result, results) ==
    IF \E i \in 1..Len(results) : results[i].status = "value"
    THEN \E i \in 1..Len(results) :
            /\ result = results[i]
            /\ results[i].status = "value"
            /\ \A j \in 1..(i - 1) : results[j].status # "value"
    ELSE \E i \in 1..Len(results) :
            /\ result = results[i]
            /\ \A j \in 1..Len(results) : results[j].specificity <= results[i].specificity
            /\ \A j \in 1..(i - 1) : results[j].specificity < results[i].specificity

(***************************************************************************)
(* C20.  In a bytes coercion of a type/value pair: when the annotation is  *)
(* not a bytes annotation, or implies another length or kind than the      *)
(* target's, bytesFromTypeValueInput throws the specificity-5 mismatch     *)
(* with the specified-type message, the value is not looked at, and the    *)
(* coercion ends in that mismatch; when it implies the target, the         *)
(* coercion ends as the basic cases end on the value with loose = true.    *)
(***************************************************************************)
C20_BytesPairFollowsAnnotation ==
    (IsBytes /\ input.tag = "typeValue") =>
        IF AnnotationImpliesTarget(input.type, dataType)
        THEN /\ BegunAt(1) # <<>> /\ ThrownAt(1) = <<>> /\ ~Done => Len(stack) = 2
             /\ Done => /\ BegunAt(2) # <<>>
                        /\ IsOutcomeOf(outcome, BasicBytesResults(dataType, input.value))
        ELSE /\ BegunAt(2) = <<>>
             /\ thrown # <<>> =>
                   thrown[1] = [depth |-> 1, idx |-> 1, name |-> "bytesFromTypeValueInput",
                                error |-> TypeMismatchError(dataType, input, 5,
                                              specifiedTypeMessage(input.type))]
             /\ Done => outcome = TypeMismatchError(dataType, input, 5,
                                      specifiedTypeMessage(input.type))

\* "byte" read as one byte, the value padded to it
C20_Witness ==
    /\ IsBytes
    /\ input.tag = "typeValue"
    /\ input.type = ByteWord
    /\ AnnotationImpliesTarget(input.type, dataType)
    /\ outcome.status = "value"
    /\ BegunAt(2) # <<>>

(***************************************************************************)
(* The fallback closes both decimal case lists.                            *)
(***************************************************************************)
FallbackIsLast ==
    /\ Last(decimalCasesBasic) = "decimalFromOther"
    /\ Last(decimalCases) = "decimalFromOther"
    /\ \A i \in 1..(Len(decimalCases) - 1) : decimalCases[i] # "decimalFromOther"

\* a case before the fallback has thrown with specificity 5 in the run at depth d
FailedWithFiveBeforeFallback(d) ==
    \E i \in 1..Len(ThrownAt(d)) :
        /\ ThrownAt(d)[i].name # "decimalFromOther"
        /\ ThrownAt(d)[i].error.specificity = 5

(***************************************************************************)
(* C21.  The fallback is the last case of decimalCasesBasic and of         *)
(* decimalCases and every fallback begun has issued a request; a decimal   *)
(* coercion that has ended in a TypeMismatchError has issued a request and *)
(* been answered, the error last thrown being the one of the top-level     *)
(* fallback, whatever the earlier cases threw.                             *)
(***************************************************************************)
C21_NoMismatchWithoutARequest ==
    /\ FallbackIsLast
    /\ Len(requests) = Len(FallbacksBegun)
    /\ (~IsBytes /\ outcome.status = "mismatch") =>
          /\ requests # <<>>
          /\ Len(answers) = Len(requests)
          /\ Len(thrown) >= Len(decimalCases)
          /\ Last(thrown).depth = 1
          /\ Last(thrown).name = "decimalFromOther"
          /\ Last(requests).input = input

\* a string that is not a number, and a pair annotated with another type
\* than the target's: both fail with specificity 5, after a request
C21_Witness ==
    /\ ~IsBytes
    /\ outcome.status = "mismatch"
    /\ outcome.specificity = 5
    /\ FailedWithFiveBeforeFallback(1)
    /\ Len(requests) = 1
    /\ \/ input.tag = "string" /\ ThrownBy(1, "decimalFromString").specificity = 5
       \/ input.tag = "typeValue" /\ ThrownBy(1, "decimalFromTypeValueInput").specificity = 5

(***************************************************************************)
(* A type/value pair whose annotation parses to the class, bits and places *)
(* of the target.                                                          *)
(***************************************************************************)
DeclaresTargetDecimalType ==
    /\ IsDecimal
    /\ input.tag = "typeValue"
    /\ MatchesDecimalAnnotation(input.type)
    /\ ~DeclaresOtherDecimalType

\* the request carries in as its rawInput
Carries(request, in) ==
    /\ request.kind = "decimal"
    /\ request.input.tag = in.tag
    /\ request.input = in

(***************************************************************************)
(* C22.  A decimal coercion issues at most two requests and has at most    *)
(* one outstanding.  A second request is issued only for a type/value pair *)
(* whose annotation is the target's, after the first was answered with the *)
(* kind asked for and the fallback of the run over input.value threw, the  *)
(* type-annotated case with it; the first request then carries             *)
(* input.value and the second the pair.  The only request of a coercion    *)
(* of such a pair carries input.value, that of any other input the input.  *)
(***************************************************************************)
C22_AtMostTwoRequests ==
    IsDecimal =>
        /\ Len(requests) <= 2
        /\ Outstanding \in {0, 1}
        /\ Len(requests) = 2 =>
              /\ DeclaresTargetDecimalType
              /\ Carries(requests[1], input.value)
              /\ Carries(requests[2], input)
              /\ answers # <<>>
              /\ answers[1].kind = "decimal"
              /\ HasThrown(2, "decimalFromOther")
              /\ HasThrown(1, "decimalFromTypeValueInput")
              /\ Len(stack) <= 1
        /\ Len(requests) = 1 =>
              IF DeclaresTargetDecimalType
              THEN Carries(requests[1], input.value)
              ELSE Carries(requests[1], input)

\* the second request answered with a value the target holds
C22_Witness ==
    /\ IsDecimal
    /\ Len(requests) = 2
    /\ Len(answers) = 2
    /\ outcome.status = "value"

(***************************************************************************)
(* C23.  Every TypeMismatchError thrown or reported has a specificity in   *)
(* 1..5.  A bytes coercion that fails has tried bytesFailureCase in its    *)
(* top-level run and reports a specificity of at least 2; a decimal        *)
(* coercion that fails reports one of at least 3, its top-level fallback   *)
(* having thrown with 3 or 5.                                              *)
(***************************************************************************)
C23_SpecificityBaseline ==
    /\ \A i \in 1..Len(thrown) : thrown[i].error.specificity \in 1..5
    /\ outcome.status = "mismatch" =>
          /\ outcome.specificity \in 1..5
          /\ \A i \in 1..Len(thrown) : thrown[i].error.specificity <= outcome.specificity
          /\ IsBytes =>
                /\ HasThrown(1, "bytesFailureCase")
                /\ ThrownBy(1, "bytesFailureCase").specificity = 2
                /\ outcome.specificity >= 2
          /\ IsDecimal =>
                /\ HasThrown(1, "decimalFromOther")
                /\ ThrownBy(1, "decimalFromOther").specificity \in {3, 5}
                /\ outcome.specificity >= 3

\* the baseline itself is what is reported: no case came close
C23_Witness ==
    /\ outcome.status = "mismatch"
    /\ \/ IsBytes /\ outcome.specificity = 2 /\ outcome = ThrownBy(1, "bytesFailureCase")
       \/ IsDecimal /\ outcome.specificity = 3 /\ outcome = ThrownBy(1, "decimalFromOther")


====
